---- MODULE Spec2Model ----
(***************************************************************************)
(* Input-resolution layer of konflux-build-cli: build-file discovery       *)
(* (pkg/common/dockerfile.go), the push commands that consume it, and the  *)
(* secret-directory resolution of the build command.                       *)
(*                                                                         *)
(* A path string is a record [abs, segs]: abs tells whether the string     *)
(* starts with "/", segs are its "/"-separated components as written       *)
(* (they may be "." or "..").  The empty string is [abs FALSE, segs <<>>]. *)
(* A file system maps the component sequence of an absolute, symlink-free  *)
(* path to the node stored there.                                          *)
(***************************************************************************)
EXTENDS Integers, Sequences, FiniteSets, TLC

VARIABLES
  fs,             \* the file system
  cwd,            \* the working directory of the process
  opts,           \* DockerfileSearchOpts of the call or command
  pc,             \* position of the running call or command
  result,         \* what SearchDockerfile returned
  run,            \* state of a push command's Run
  secretDirs,     \* the parsed --secret-dirs of a build
  secretsResult,  \* what processSecretDirs returned
  args,           \* the arguments of a call of one of the other functions
  ret             \* what that call returned

vars == <<fs, cwd, opts, pc, result, run, secretDirs, secretsResult, args, ret>>

(***************************************************************************)
(* Strings                                                                 *)
(***************************************************************************)

\* The characters of every path component that occurs in the model.
Chars ==
  [n \in {"s", "o", "l", "missing", "ctx", "..d", "Containerfile", "Dockerfile", ".", ".."} |->
     CASE n = "s" -> <<"s">>
       [] n = "o" -> <<"o">>
       [] n = "l" -> <<"l">>
       [] n = "missing" -> <<"m", "i", "s", "s", "i", "n", "g">>
       [] n = "ctx" -> <<"c", "t", "x">>
       [] n = "..d" -> <<".", ".", "d">>
       [] n = "Containerfile" -> <<"C", "o", "n", "t", "a", "i", "n", "e", "r", "f", "i", "l", "e">>
       [] n = "Dockerfile" -> <<"D", "o", "c", "k", "e", "r", "f", "i", "l", "e">>
       [] n = "." -> <<".">>
       [] n = ".." -> <<".", ".">>]

\* strings.HasPrefix on character sequences.
HasPrefix(s, prefix) ==
  /\ Len(s) >= Len(prefix)
  /\ SubSeq(s, 1, Len(prefix)) = prefix

RECURSIVE JoinChars(_)
\* The characters of a relative path: its components separated by "/".
JoinChars(segs) ==
  IF segs = <<>> THEN <<>>
  ELSE IF Len(segs) = 1 THEN Chars[segs[1]]
  ELSE Chars[segs[1]] \o <<"/">> \o JoinChars(Tail(segs))

(***************************************************************************)
(* path/filepath: lexical operations                                       *)
(***************************************************************************)

P(a, s) == [abs |-> a, segs |-> s]

EmptyPath == P(FALSE, <<>>)

RootPath == P(TRUE, <<>>)

DotPath == P(FALSE, <<".">>)

RECURSIVE CleanSegs(_, _, _)
\* The component loop of filepath.Clean: "." is dropped, ".." removes the
\* component before it, is dropped at the root and is kept at the start of
\* a relative path.
CleanSegs(rooted, out, rest) ==
  IF rest = <<>> THEN out
  ELSE LET c == Head(rest) IN
    IF c = "." THEN CleanSegs(rooted, out, Tail(rest))
    ELSE IF c = ".." THEN
      IF out # <<>> /\ out[Len(out)] # ".."
        THEN CleanSegs(rooted, SubSeq(out, 1, Len(out) - 1), Tail(rest))
      ELSE IF rooted THEN CleanSegs(rooted, out, Tail(rest))
      ELSE CleanSegs(rooted, Append(out, ".."), Tail(rest))
    ELSE CleanSegs(rooted, Append(out, c), Tail(rest))

\* filepath.Clean: the empty string and every relative path that cleans to
\* nothing become ".".
Clean(p) ==
  LET s == CleanSegs(p.abs, <<>>, p.segs) IN
    IF ~p.abs /\ s = <<>> THEN DotPath ELSE P(p.abs, s)

RECURSIVE JoinRaw(_)
JoinRaw(elems) ==
  IF elems = <<>> THEN EmptyPath
  ELSE IF Head(elems) = EmptyPath THEN JoinRaw(Tail(elems))
  ELSE LET rest == JoinRaw(Tail(elems)) IN
    P(Head(elems).abs, Head(elems).segs \o rest.segs)

\* filepath.Join: empty elements are ignored, the others are joined with
\* "/" and the result is cleaned; all empty gives the empty string.
Join(elems) ==
  IF \A i \in 1..Len(elems) : elems[i] = EmptyPath THEN EmptyPath
  ELSE Clean(JoinRaw(elems))

\* filepath.Abs: a relative path is joined to the working directory.
Abs(p, wd) == IF p.abs THEN Clean(p) ELSE Join(<<wd, p>>)

RECURSIVE CommonLen(_, _)
CommonLen(a, b) ==
  IF a = <<>> \/ b = <<>> \/ Head(a) # Head(b) THEN 0
  ELSE 1 + CommonLen(Tail(a), Tail(b))

\* filepath.Rel(base, targ): "." when equal, else one ".." per component of
\* base below the common prefix, followed by the rest of targ.  It fails
\* when only one of the two is absolute or base keeps a leading "..".
Rel(basepath, targpath) ==
  LET base == Clean(basepath)
      targ == Clean(targpath)
      bs == IF base = DotPath THEN <<>> ELSE base.segs
      ts == IF targ = DotPath THEN <<>> ELSE targ.segs
      k == CommonLen(bs, ts)
      ups == [i \in 1..(Len(bs) - k) |-> ".."]
  IN  IF base.abs # targ.abs THEN [err |-> TRUE, segs |-> <<>>]
      ELSE IF bs = ts THEN [err |-> FALSE, segs |-> <<".">>]
      ELSE IF k < Len(bs) /\ bs[k + 1] = ".." THEN [err |-> TRUE, segs |-> <<>>]
      ELSE [err |-> FALSE, segs |-> ups \o SubSeq(ts, k + 1, Len(ts))]

(***************************************************************************)
(* File system and filepath.EvalSymlinks                                   *)
(***************************************************************************)

Dir == [kind |-> "dir", target |-> EmptyPath]

File == [kind |-> "file", target |-> EmptyPath]

Link(t) == [kind |-> "link", target |-> t]

EvalOk(segs) == [err |-> "nil", path |-> P(TRUE, segs)]

EvalErr(e) == [err |-> e, path |-> EmptyPath]

RECURSIVE walkSymlinks(_, _, _, _)
\* filepath.EvalSymlinks on an absolute path, one component at a time:
\* dest is the symlink-free prefix reached so far, rest the components
\* still to walk.  At most 255 symlinks are followed.
walkSymlinks(f, dest, rest, linksWalked) ==
  IF rest = <<>> THEN EvalOk(dest)
  ELSE LET c == Head(rest)
           next == Append(dest, c)
       IN
    IF c = "." THEN walkSymlinks(f, dest, Tail(rest), linksWalked)
    ELSE IF c = ".." THEN
      walkSymlinks(f, IF dest = <<>> THEN dest ELSE SubSeq(dest, 1, Len(dest) - 1),
                   Tail(rest), linksWalked)
    ELSE IF next \notin DOMAIN f THEN EvalErr("ENOENT")
    ELSE IF f[next].kind # "link" THEN
      IF f[next].kind # "dir" /\ Tail(rest) # <<>> THEN EvalErr("ENOTDIR")
      ELSE walkSymlinks(f, next, Tail(rest), linksWalked)
    ELSE IF linksWalked + 1 > 255 THEN EvalErr("ELOOP")
    ELSE walkSymlinks(f, IF f[next].target.abs THEN <<>> ELSE dest,
                      f[next].target.segs \o Tail(rest), linksWalked + 1)

EvalSymlinks(f, p) == walkSymlinks(f, <<>>, p.segs, 0)

\* os.IsNotExist taking every failure for a missing file.
IsNotExist_anyError(e) == e # "nil"

\* os.IsNotExist
IsNotExist(e) == e = "ENOENT"

(***************************************************************************)
(* pkg/common/dockerfile.go                                                *)
(***************************************************************************)

\* DockerfileSearchOpts
Opts(source, context, dockerfile) ==
  [SourceDir |-> source, ContextDir |-> context, Dockerfile |-> dockerfile]

\* isRelativeTo(path, base)
isRelativeTo(path, base) ==
  LET rel == Rel(base, path) IN
    IF rel.err THEN FALSE
    ELSE ~HasPrefix(JoinChars(rel.segs), <<".", ".">>)

\* What SearchDockerfile returns, with the trace of the candidates it
\* evaluated: for each one the name searched, its position in
\* possibleDockerfiles, the candidate path, the outcome of EvalSymlinks,
\* and the outcome of isRelativeTo where called.
Found(p, log) == [path |-> p, err |-> "nil", log |-> log]

Failed(e, log) == [path |-> EmptyPath, err |-> e, log |-> log]

possibleDockerfiles(actualAbsSourcePath, contextDir, dockerfile) ==
  << Join(<<actualAbsSourcePath, contextDir, dockerfile>>),
     Join(<<actualAbsSourcePath, dockerfile>>) >>

RECURSIVE searchLoop(_, _, _, _, _, _)

\* searchLoop with the containment check made on the candidate path as
\* joined, before symlink resolution.
searchLoop_checksUnresolved(f, actualAbsSourcePath, dockerfile, cands, i, log) ==
  IF i > Len(cands) THEN Found(EmptyPath, log)
  ELSE
    LET ev == EvalSymlinks(f, cands[i])
        entry == [dockerfile |-> dockerfile, pos |-> i, cand |-> cands[i], eval |-> ev,
                  checked |-> FALSE, rel |-> FALSE]
    IN
      IF ev.err # "nil" THEN
        IF ~IsNotExist(ev.err) THEN Failed("eval", Append(log, entry))
        ELSE searchLoop(f, actualAbsSourcePath, dockerfile, cands, i + 1, Append(log, entry))
      ELSE
        LET rel == isRelativeTo(cands[i], actualAbsSourcePath)
            log1 == Append(log, [entry EXCEPT !.checked = TRUE, !.rel = rel])
        IN  IF ~rel THEN Failed("escape", log1)
            ELSE Found(ev.path, log1)

\* searchLoop going on to the next candidate when one escapes.
searchLoop_skipsEscaped(f, actualAbsSourcePath, dockerfile, cands, i, log) ==
  IF i > Len(cands) THEN Found(EmptyPath, log)
  ELSE
    LET ev == EvalSymlinks(f, cands[i])
        entry == [dockerfile |-> dockerfile, pos |-> i, cand |-> cands[i], eval |-> ev,
                  checked |-> FALSE, rel |-> FALSE]
    IN
      IF ev.err # "nil" THEN
        IF ~IsNotExist(ev.err) THEN Failed("eval", Append(log, entry))
        ELSE searchLoop(f, actualAbsSourcePath, dockerfile, cands, i + 1, Append(log, entry))
      ELSE
        LET rel == isRelativeTo(ev.path, actualAbsSourcePath)
            log1 == Append(log, [entry EXCEPT !.checked = TRUE, !.rel = rel])
        IN  IF ~rel THEN searchLoop(f, actualAbsSourcePath, dockerfile, cands, i + 1, log1)
            ELSE Found(ev.path, log1)

\* The loop of the _search closure over possibleDockerfiles[i..].
searchLoop(f, actualAbsSourcePath, dockerfile, cands, i, log) ==
  IF i > Len(cands) THEN Found(EmptyPath, log)
  ELSE
    LET ev == EvalSymlinks(f, cands[i])
        entry == [dockerfile |-> dockerfile, pos |-> i, cand |-> cands[i], eval |-> ev,
                  checked |-> FALSE, rel |-> FALSE]
    IN
      IF ev.err # "nil" THEN
        IF ~IsNotExist(ev.err) THEN Failed("eval", Append(log, entry))
        ELSE searchLoop(f, actualAbsSourcePath, dockerfile, cands, i + 1, Append(log, entry))
      ELSE
        LET rel == isRelativeTo(ev.path, actualAbsSourcePath)
            log1 == Append(log, [entry EXCEPT !.checked = TRUE, !.rel = rel])
        IN  IF ~rel THEN Failed("escape", log1)
            ELSE Found(ev.path, log1)

\* The _search closure.
search(f, actualAbsSourcePath, contextDir, dockerfile, log) ==
  searchLoop(f, actualAbsSourcePath, dockerfile,
             possibleDockerfiles(actualAbsSourcePath, contextDir, dockerfile), 1, log)

\* The names searched when no Dockerfile is given.
DefaultDockerfiles == << P(FALSE, <<".", "Containerfile">>), P(FALSE, <<".", "Dockerfile">>) >>

RECURSIVE searchDefaults(_, _, _, _, _, _)
\* The loop over "./Containerfile" and "./Dockerfile".
searchDefaults(f, actualAbsSourcePath, contextDir, names, i, log) ==
  IF i > Len(names) THEN Found(EmptyPath, log)
  ELSE
    LET r == search(f, actualAbsSourcePath, contextDir, names[i], log) IN
      IF r.err # "nil" THEN r
      ELSE IF r.path # EmptyPath THEN r
      ELSE searchDefaults(f, actualAbsSourcePath, contextDir, names, i + 1, r.log)

SearchDockerfile(f, wd, o) ==
  IF o.SourceDir = EmptyPath THEN Failed("missing_source", <<>>)
  ELSE
    LET contextDir == IF o.ContextDir = EmptyPath THEN DotPath ELSE o.ContextDir
        absSourceDir == Abs(o.SourceDir, wd)
        actualAbsSourcePath == EvalSymlinks(f, absSourceDir)
    IN
      IF actualAbsSourcePath.err # "nil" THEN Failed("source_eval", <<>>)
      ELSE IF o.Dockerfile = EmptyPath
        THEN searchDefaults(f, actualAbsSourcePath.path, contextDir, DefaultDockerfiles, 1, <<>>)
      ELSE search(f, actualAbsSourcePath.path, contextDir, o.Dockerfile, <<>>)

(***************************************************************************)
(* src/unnamed/part_007: the other SearchDockerfile of package common      *)
(*                                                                         *)
(* It resolves the source directory as given, without filepath.Abs, keeps  *)
(* it with a trailing "/", tests containment with strings.HasPrefix, and   *)
(* its _search closure assigns to the contextDir it captured.              *)
(***************************************************************************)

\* The characters of a clean path.
PathChars(p) == IF p.abs THEN <<"/">> \o JoinChars(p.segs) ELSE JoinChars(p.segs)

RECURSIVE walkSymlinksAt(_, _, _, _, _, _)
\* filepath.EvalSymlinks on a path that may be relative: dest is the
\* symlink-free prefix reached so far, relative to wd until abs is set by
\* the path itself or by an absolute link target.
walkSymlinksAt(f, wd, abs, dest, rest, linksWalked) ==
  IF rest = <<>> THEN
    [err |-> "nil", path |-> IF ~abs /\ dest = <<>> THEN DotPath ELSE P(abs, dest)]
  ELSE LET c == Head(rest)
           next == Append(dest, c)
           at == IF abs THEN next ELSE Clean(P(TRUE, wd.segs \o next)).segs
       IN
    IF c = "." THEN walkSymlinksAt(f, wd, abs, dest, Tail(rest), linksWalked)
    ELSE IF c = ".." THEN
      IF ~abs /\ (dest = <<>> \/ dest[Len(dest)] = "..")
        THEN walkSymlinksAt(f, wd, abs, next, Tail(rest), linksWalked)
      ELSE walkSymlinksAt(f, wd, abs,
                          IF dest = <<>> THEN dest ELSE SubSeq(dest, 1, Len(dest) - 1),
                          Tail(rest), linksWalked)
    ELSE IF at \notin DOMAIN f THEN EvalErr("ENOENT")
    ELSE IF f[at].kind # "link" THEN
      IF f[at].kind # "dir" /\ Tail(rest) # <<>> THEN EvalErr("ENOTDIR")
      ELSE walkSymlinksAt(f, wd, abs, next, Tail(rest), linksWalked)
    ELSE IF linksWalked + 1 > 255 THEN EvalErr("ELOOP")
    ELSE walkSymlinksAt(f, wd, abs \/ f[at].target.abs,
                        IF f[at].target.abs THEN <<>> ELSE dest,
                        f[at].target.segs \o Tail(rest), linksWalked + 1)

EvalSymlinksAt(f, wd, p) == walkSymlinksAt(f, wd, p.abs, <<>>, p.segs, 0)

\* resolvedSourcePath with its trailing "/", as characters.
WithSlash(resolvedSourcePath) ==
  IF resolvedSourcePath = RootPath THEN <<"/">>
  ELSE PathChars(resolvedSourcePath) \o <<"/">>

RECURSIVE searchLoopAlt(_, _, _, _, _, _, _)
\* The loop of the _search closure over possibleDockerfiles[i..].
searchLoopAlt(f, wd, resolvedSourcePath, dockerfile, cands, i, log) ==
  IF i > Len(cands) THEN Found(EmptyPath, log)
  ELSE
    LET ev == EvalSymlinksAt(f, wd, cands[i])
        entry == [dockerfile |-> dockerfile, pos |-> i, cand |-> cands[i], eval |-> ev,
                  checked |-> FALSE, rel |-> FALSE]
    IN
      IF ev.err # "nil" THEN
        IF ~IsNotExist(ev.err) THEN Failed("eval", Append(log, entry))
        ELSE searchLoopAlt(f, wd, resolvedSourcePath, dockerfile, cands, i + 1,
                           Append(log, entry))
      ELSE
        LET rel == HasPrefix(PathChars(ev.path), WithSlash(resolvedSourcePath))
            log1 == Append(log, [entry EXCEPT !.checked = TRUE, !.rel = rel])
        IN  IF ~rel THEN Failed("escape", log1)
            ELSE Found(ev.path, log1)

\* The _search closure: the result of the search and the contextDir it
\* leaves behind.
searchAlt(f, wd, resolvedSourcePath, contextDir, dockerfile, log) ==
  \* contextDir = filepath.Join(resolvedSourcePath, contextDir)
  LET joined == Join(<<resolvedSourcePath, contextDir>>) IN
    [contextDir |-> joined,
     found |-> searchLoopAlt(f, wd, resolvedSourcePath, dockerfile,
                             << Join(<<joined, dockerfile>>),
                                Join(<<resolvedSourcePath, dockerfile>>) >>, 1, log)]

RECURSIVE searchDefaultsAlt(_, _, _, _, _, _, _)
\* The loop over "./Containerfile" and "./Dockerfile".
searchDefaultsAlt(f, wd, resolvedSourcePath, contextDir, names, i, log) ==
  IF i > Len(names) THEN Found(EmptyPath, log)
  ELSE
    LET r == searchAlt(f, wd, resolvedSourcePath, contextDir, names[i], log) IN
      IF r.found.err # "nil" THEN r.found
      ELSE IF r.found.path # EmptyPath THEN r.found
      ELSE searchDefaultsAlt(f, wd, resolvedSourcePath, r.contextDir, names, i + 1, r.found.log)

SearchDockerfileAlt(f, wd, o) ==
  IF o.SourceDir = EmptyPath THEN Failed("missing_source", <<>>)
  ELSE
    LET contextDir == IF o.ContextDir = EmptyPath THEN DotPath ELSE o.ContextDir
        resolvedSourcePath == EvalSymlinksAt(f, wd, o.SourceDir)
    IN
      IF resolvedSourcePath.err # "nil" THEN Failed("source_eval", <<>>)
      ELSE IF o.Dockerfile = EmptyPath
        THEN searchDefaultsAlt(f, wd, resolvedSourcePath.path, contextDir,
                               DefaultDockerfiles, 1, <<>>)
      ELSE searchAlt(f, wd, resolvedSourcePath.path, contextDir, o.Dockerfile, <<>>).found

(***************************************************************************)
(* The file systems and options the search is run on                       *)
(***************************************************************************)

NoNodes == [p \in {} |-> Dir]

FilesIn(dir, names) == [p \in {Append(dir, n) : n \in names} |-> File]

BuildFileNames == {"Containerfile", "Dockerfile"}

\* /s is the source directory, /o a directory outside of it, /l a symlink
\* to the source directory.
BaseNodes ==
  (<<>> :> Dir) @@ (<<"s">> :> Dir) @@ (<<"o">> :> Dir)
    @@ (<<"l">> :> Link(P(TRUE, <<"s">>)))

\* /s/ctx: absent, a regular file, a symlink to /o, or a directory.
CtxNodes ==
  {NoNodes, <<"s", "ctx">> :> File, <<"s", "ctx">> :> Link(P(TRUE, <<"o">>))}
    \cup {(<<"s", "ctx">> :> Dir) @@ FilesIn(<<"s", "ctx">>, ns) : ns \in SUBSET BuildFileNames}

\* /s/..d: absent or a directory.
DotNodes ==
  {NoNodes}
    \cup {(<<"s", "..d">> :> Dir) @@ FilesIn(<<"s", "..d">>, ns) : ns \in SUBSET BuildFileNames}

\* /s/Containerfile: absent, a file, or a symlink to "Dockerfile";
\* /s/Dockerfile: absent, a file, or a symlink to /o/Dockerfile.
SourceNodes ==
  {c @@ d :
     c \in {NoNodes, <<"s", "Containerfile">> :> File,
            <<"s", "Containerfile">> :> Link(P(FALSE, <<"Dockerfile">>))},
     d \in {NoNodes, <<"s", "Dockerfile">> :> File,
            <<"s", "Dockerfile">> :> Link(P(TRUE, <<"o", "Dockerfile">>))}}

OutsideNodes ==
  {FilesIn(<<"o">>, ns) : ns \in {{}, {"Dockerfile"}, BuildFileNames}}
    \X {FilesIn(<<>>, ns) : ns \in {{}, {"Dockerfile"}}}

FileSystems ==
  {BaseNodes @@ c @@ d @@ s @@ o[1] @@ o[2] :
     c \in CtxNodes, d \in DotNodes, s \in SourceNodes, o \in OutsideNodes}

SourceDirs ==
  {EmptyPath, P(TRUE, <<"s">>), P(TRUE, <<"l">>), P(FALSE, <<"s">>), P(TRUE, <<"missing">>)}

ContextDirs == {EmptyPath, P(FALSE, <<"ctx">>), P(FALSE, <<"..d">>)}

Dockerfiles ==
  {EmptyPath, P(FALSE, <<".", "Dockerfile">>), P(FALSE, <<"..", "Dockerfile">>),
   P(FALSE, <<"ctx", "Dockerfile">>)}

NoResult == Failed("none", <<>>)

\* A push command before it runs: nothing selected, created, pushed or
\* written, and no return value yet.
NoRun ==
  [cmd |-> "none", ret |-> "running", curDir |-> EmptyPath, auth |-> FALSE,
   config |-> "none", removeDeferred |-> FALSE, pushes |-> 0, written |-> FALSE]

NoSecrets == [secrets |-> <<>>, err |-> "none", id |-> EmptyPath]

\* No call under way and nothing returned.
NoArgs == [fn |-> "none"]

NoRet == [err |-> "none"]

(***************************************************************************)
(* Specification: one call of SearchDockerfile                             *)
(***************************************************************************)

Init ==
  /\ fs \in FileSystems
  /\ cwd = RootPath
  /\ opts \in {Opts(s, c, d) : s \in SourceDirs, c \in ContextDirs, d \in Dockerfiles}
  /\ pc = "start"
  /\ result = NoResult
  /\ run = NoRun
  /\ secretDirs = <<>>
  /\ secretsResult = NoSecrets
  /\ args = NoArgs
  /\ ret = NoRet

CallSearchDockerfile ==
  /\ pc = "start"
  /\ result' = SearchDockerfile(fs, cwd, opts)
  /\ pc' = "done"
  /\ UNCHANGED <<fs, cwd, opts, run, secretDirs, secretsResult, args, ret>>

Next == CallSearchDockerfile

Spec == Init /\ [][Next]_vars

\* One call of the SearchDockerfile of src/unnamed/part_007.
CallSearchDockerfileAlt ==
  /\ pc = "start"
  /\ result' = SearchDockerfileAlt(fs, cwd, opts)
  /\ pc' = "done"
  /\ UNCHANGED <<fs, cwd, opts, run, secretDirs, secretsResult, args, ret>>

NextAlt == CallSearchDockerfileAlt

SpecAlt == Init /\ [][NextAlt]_vars

TypeOK ==
  /\ pc \in {"start", "done"}
  /\ result.err \in {"none", "nil", "missing_source", "source_eval", "eval", "escape"}

(***************************************************************************)
(* PushContainerfile.Run and PushDockerfile.Run                            *)
(***************************************************************************)

Commands == {"push-containerfile", "push-dockerfile"}

\* filepath.Dir of a clean absolute path.
DirOf(p) ==
  IF p.segs = <<>> THEN p ELSE P(p.abs, SubSeq(p.segs, 1, Len(p.segs) - 1))

\* Run returns: the deferred calls run (os.Remove of the registry config
\* file, os.Chdir back to curDir) and the error is handed to the caller.
Return(r, e) ==
  /\ pc' = "returned"
  /\ run' = [r EXCEPT !.ret = e,
                      !.config = IF r.removeDeferred THEN "removed" ELSE r.config]
  /\ cwd' = IF r.removeDeferred THEN r.curDir ELSE cwd

\* GetImageName, validateParams and os.Getwd.
RunValidate ==
  /\ pc = "validate"
  /\ \E valid \in BOOLEAN :
       IF valid
         THEN /\ pc' = "search"
              /\ run' = [run EXCEPT !.curDir = cwd]
              /\ UNCHANGED cwd
         ELSE Return(run, "error")
  /\ UNCHANGED <<fs, opts, result, secretDirs, secretsResult, args, ret>>

\* RunSearch going on to the push when nothing was found.
RunSearch_ignoresNotFound ==
  /\ pc = "search"
  /\ result' = SearchDockerfile(fs, cwd, opts)
  /\ IF result'.err # "nil" THEN Return(run, "error")
     ELSE pc' = "auth" /\ UNCHANGED <<run, cwd>>
  /\ UNCHANGED <<fs, opts, secretDirs, secretsResult, args, ret>>

\* common.SearchDockerfile and the two tests of what it returned.
RunSearch ==
  /\ pc = "search"
  /\ result' = SearchDockerfile(fs, cwd, opts)
  /\ IF result'.err # "nil" THEN Return(run, "error")
     ELSE IF result'.path = EmptyPath THEN Return(run, "nil")
     ELSE pc' = "auth" /\ UNCHANGED <<run, cwd>>
  /\ UNCHANGED <<fs, opts, secretDirs, secretsResult, args, ret>>

\* common.SelectRegistryAuthFromDefaultAuthFile, and for push-dockerfile
\* common.ExtractCredential on the selected token.
RunSelectAuth ==
  /\ pc = "auth"
  /\ \E selected \in BOOLEAN, extracted \in BOOLEAN :
       IF ~selected THEN Return(run, "error")
       ELSE IF run.cmd = "push-dockerfile" /\ ~extracted
         THEN Return([run EXCEPT !.auth = TRUE], "error")
       ELSE /\ run' = [run EXCEPT !.auth = TRUE]
            /\ pc' = IF run.cmd = "push-containerfile" THEN "config" ELSE "push"
            /\ UNCHANGED cwd
  /\ UNCHANGED <<fs, opts, result, secretDirs, secretsResult, args, ret>>

\* PushContainerfile.Run: os.CreateTemp, WriteString and Close of the
\* registry config file, then defer os.Remove, filepath.Abs, os.Chdir to
\* the directory of the Containerfile and defer os.Chdir(curDir).
RunRegistryConfig ==
  /\ pc = "config"
  /\ \E created \in BOOLEAN, written \in BOOLEAN, closed \in BOOLEAN :
       IF ~created THEN Return(run, "error")
       ELSE IF ~written \/ ~closed
         THEN Return([run EXCEPT !.config = "exists"], "error")
       ELSE /\ run' = [run EXCEPT !.config = "exists", !.removeDeferred = TRUE]
            /\ cwd' = DirOf(Abs(result.path, cwd))
            /\ pc' = "push"
  /\ UNCHANGED <<fs, opts, result, secretDirs, secretsResult, args, ret>>

\* OrasCli.Push (push-containerfile) or OrasClient.Push (push-dockerfile).
RunPush ==
  /\ pc = "push"
  /\ \E pushed \in BOOLEAN :
       IF ~pushed THEN Return([run EXCEPT !.pushes = @ + 1], "error")
       ELSE /\ run' = [run EXCEPT !.pushes = @ + 1]
            /\ pc' = "results"
            /\ UNCHANGED cwd
  /\ UNCHANGED <<fs, opts, result, secretDirs, secretsResult, args, ret>>

\* CreateResultJson and, when a result file is given, WriteResultString.
RunResults ==
  /\ pc = "results"
  /\ \E created \in BOOLEAN, resultFile \in BOOLEAN, stored \in BOOLEAN :
       IF ~created THEN Return(run, "error")
       ELSE IF resultFile /\ ~stored THEN Return([run EXCEPT !.written = TRUE], "error")
       ELSE Return([run EXCEPT !.written = TRUE], "nil")
  /\ UNCHANGED <<fs, opts, result, secretDirs, secretsResult, args, ret>>

\* The sources a push command is run on.
PushSourceDirs == {P(TRUE, <<"s">>), P(FALSE, <<"s">>), P(TRUE, <<"missing">>)}

\* The file systems a push command is run on: /o/Dockerfile exists, and
\* /s/..d and /Dockerfile do not.
PushFileSystems ==
  {BaseNodes @@ c @@ s @@ FilesIn(<<"o">>, {"Dockerfile"}) :
     c \in CtxNodes, s \in SourceNodes}

InitPush ==
  /\ fs \in PushFileSystems
  /\ cwd = RootPath
  /\ opts \in {Opts(s, c, d) : s \in PushSourceDirs, c \in ContextDirs, d \in Dockerfiles}
  /\ pc = "validate"
  /\ result = NoResult
  /\ run \in {[NoRun EXCEPT !.cmd = c] : c \in Commands}
  /\ secretDirs = <<>>
  /\ secretsResult = NoSecrets
  /\ args = NoArgs
  /\ ret = NoRet

NextPush ==
  \/ RunValidate
  \/ RunSearch
  \/ RunSelectAuth
  \/ RunRegistryConfig
  \/ RunPush
  \/ RunResults

SpecPush == InitPush /\ [][NextPush]_vars

(***************************************************************************)
(* pkg/commands/build.go: secret directories                               *)
(***************************************************************************)

\* The largest number of --secret-dirs arguments of a build.
MaxSecretDirs == 2

\* The secretDir struct.
SecretDir(src, name, optional) == [src |-> src, name |-> name, optional |-> optional]

\* What the kernel does with a path it is given (open, stat): a relative
\* path starts at the working directory and every symlink is followed.
Resolve(f, wd, p) ==
  IF p = EmptyPath THEN EvalErr("ENOENT")
  ELSE walkSymlinks(f, IF p.abs THEN <<>> ELSE wd.segs, p.segs, 0)

\* The file names of the model in the order os.ReadDir sorts them.
FileNameOrder == <<"..data", "data", "password", "subdir", "token">>

\* os.ReadDir: the entries of a directory sorted by file name, each with
\* the type of the entry itself (symlinks are not followed).
ReadDir(f, wd, p) ==
  LET r == Resolve(f, wd, p) IN
    IF r.err # "nil" THEN [err |-> r.err, entries |-> <<>>]
    ELSE IF f[r.path.segs].kind # "dir" THEN [err |-> "ENOTDIR", entries |-> <<>>]
    ELSE
      LET names == SelectSeq(FileNameOrder, LAMBDA n : Append(r.path.segs, n) \in DOMAIN f) IN
        [err |-> "nil",
         entries |-> [k \in 1..Len(names) |->
                        [name |-> names[k], type |-> f[Append(r.path.segs, names[k])].kind]]]

\* os.Stat: the kind of the node a path leads to, symlinks followed.
Stat(f, wd, p) ==
  LET r == Resolve(f, wd, p) IN
    IF r.err # "nil" THEN [err |-> r.err, kind |-> "none"]
    ELSE [err |-> "nil", kind |-> f[r.path.segs].kind]

\* filepath.Base
Base(p) ==
  IF p = EmptyPath THEN DotPath
  ELSE IF p.segs = <<>> THEN RootPath
  ELSE P(FALSE, <<p.segs[Len(p.segs)]>>)

\* isRegular telling a symlink by the type of the entry alone.
isRegular_noStat(f, wd, entry, dir) ==
  IF entry.type = "file" THEN [err |-> "nil", isFile |-> TRUE]
  ELSE [err |-> "nil", isFile |-> FALSE]

\* isRegular(entry, dir)
isRegular(f, wd, entry, dir) ==
  IF entry.type = "file" THEN [err |-> "nil", isFile |-> TRUE]
  ELSE IF entry.type = "link" THEN
    LET stat == Stat(f, wd, Join(<<dir, P(FALSE, <<entry.name>>)>>)) IN
      IF stat.err # "nil" THEN [err |-> "stat", isFile |-> FALSE]
      ELSE [err |-> "nil", isFile |-> stat.kind = "file"]
  ELSE [err |-> "nil", isFile |-> FALSE]

\* What processSecretDirs returns: the BuildahSecret list or an error,
\* and for the duplicate-id error the id it names.  st carries the list
\* built so far with the used ids.
SecretsOk(st) == [secrets |-> st.secrets, err |-> "nil", id |-> EmptyPath]

SecretsErr(e, id) == [secrets |-> <<>>, err |-> e, id |-> id]

RECURSIVE processEntries(_, _, _, _, _, _, _)

\* processEntries without the test of usedIDs.
processEntries_noConflictCheck(f, wd, secretDir, idPrefix, entries, j, st) ==
  IF j > Len(entries) THEN [err |-> "nil", id |-> EmptyPath, st |-> st]
  ELSE
    LET isFile == isRegular(f, wd, entries[j], secretDir.src)
        filename == P(FALSE, <<entries[j].name>>)
        fullID == Join(<<idPrefix, filename>>)
        secretPath == Join(<<secretDir.src, filename>>)
    IN
      IF isFile.err # "nil" THEN [err |-> isFile.err, id |-> EmptyPath, st |-> st]
      ELSE IF ~isFile.isFile
        THEN processEntries(f, wd, secretDir, idPrefix, entries, j + 1, st)
      ELSE processEntries(f, wd, secretDir, idPrefix, entries, j + 1,
             [secrets |-> Append(st.secrets, [Src |-> secretPath, Id |-> fullID]),
              usedIDs |-> st.usedIDs \cup {fullID}])

\* processEntries putting each new mapping in front of the list.
processEntries_prepends(f, wd, secretDir, idPrefix, entries, j, st) ==
  IF j > Len(entries) THEN [err |-> "nil", id |-> EmptyPath, st |-> st]
  ELSE
    LET isFile == isRegular(f, wd, entries[j], secretDir.src)
        filename == P(FALSE, <<entries[j].name>>)
        fullID == Join(<<idPrefix, filename>>)
        secretPath == Join(<<secretDir.src, filename>>)
    IN
      IF isFile.err # "nil" THEN [err |-> isFile.err, id |-> EmptyPath, st |-> st]
      ELSE IF ~isFile.isFile
        THEN processEntries(f, wd, secretDir, idPrefix, entries, j + 1, st)
      ELSE IF fullID \in st.usedIDs THEN [err |-> "duplicate", id |-> fullID, st |-> st]
      ELSE processEntries(f, wd, secretDir, idPrefix, entries, j + 1,
             [secrets |-> <<[Src |-> secretPath, Id |-> fullID]>> \o st.secrets,
              usedIDs |-> st.usedIDs \cup {fullID}])

\* The loop of processSecretDirs over the entries of one directory.
processEntries(f, wd, secretDir, idPrefix, entries, j, st) ==
  IF j > Len(entries) THEN [err |-> "nil", id |-> EmptyPath, st |-> st]
  ELSE
    LET isFile == isRegular(f, wd, entries[j], secretDir.src)
        filename == P(FALSE, <<entries[j].name>>)
        fullID == Join(<<idPrefix, filename>>)
        secretPath == Join(<<secretDir.src, filename>>)
    IN
      IF isFile.err # "nil" THEN [err |-> isFile.err, id |-> EmptyPath, st |-> st]
      ELSE IF ~isFile.isFile
        THEN processEntries(f, wd, secretDir, idPrefix, entries, j + 1, st)
      ELSE IF fullID \in st.usedIDs THEN [err |-> "duplicate", id |-> fullID, st |-> st]
      ELSE processEntries(f, wd, secretDir, idPrefix, entries, j + 1,
             [secrets |-> Append(st.secrets, [Src |-> secretPath, Id |-> fullID]),
              usedIDs |-> st.usedIDs \cup {fullID}])

RECURSIVE processDirs(_, _, _, _, _)

\* processDirs skipping an optional directory on every listing failure.
processDirs_skipsAnyFailure(f, wd, dirs, i, st) ==
  IF i > Len(dirs) THEN SecretsOk(st)
  ELSE
    LET secretDir == dirs[i]
        idPrefix == IF secretDir.name = EmptyPath THEN Base(secretDir.src) ELSE secretDir.name
        listing == ReadDir(f, wd, secretDir.src)
    IN
      IF listing.err # "nil" THEN
        IF secretDir.optional THEN processDirs(f, wd, dirs, i + 1, st)
        ELSE SecretsErr("read", EmptyPath)
      ELSE
        LET r == processEntries(f, wd, secretDir, idPrefix, listing.entries, 1, st) IN
          IF r.err # "nil" THEN SecretsErr(r.err, r.id)
          ELSE processDirs(f, wd, dirs, i + 1, r.st)

\* The loop of processSecretDirs over the secret directories.
processDirs(f, wd, dirs, i, st) ==
  IF i > Len(dirs) THEN SecretsOk(st)
  ELSE
    LET secretDir == dirs[i]
        idPrefix == IF secretDir.name = EmptyPath THEN Base(secretDir.src) ELSE secretDir.name
        listing == ReadDir(f, wd, secretDir.src)
    IN
      IF listing.err # "nil" THEN
        IF IsNotExist(listing.err) /\ secretDir.optional
          THEN processDirs(f, wd, dirs, i + 1, st)
        ELSE SecretsErr("read", EmptyPath)
      ELSE
        LET r == processEntries(f, wd, secretDir, idPrefix, listing.entries, 1, st) IN
          IF r.err # "nil" THEN SecretsErr(r.err, r.id)
          ELSE processDirs(f, wd, dirs, i + 1, r.st)

processSecretDirs(f, wd, dirs) ==
  processDirs(f, wd, dirs, 1, [secrets |-> <<>>, usedIDs |-> {}])

\* The file systems of the secret directories: /a/secret1 and /b/secret1
\* share their base name, /f is a regular file.
SecretBaseNodes ==
  (<<>> :> Dir) @@ (<<"a">> :> Dir) @@ (<<"b">> :> Dir) @@ (<<"f">> :> File)
    @@ (<<"a", "secret1">> :> Dir) @@ (<<"b", "secret1">> :> Dir)

\* /a/secret1: empty, plain files, the layout of a Kubernetes secret
\* volume (token -> ..data/token, data -> ..data), a subdirectory, or a
\* symlink that leads nowhere.
SecretNodesA ==
  LET d == <<"a", "secret1">> IN
    { NoNodes,
      FilesIn(d, {"token"}),
      FilesIn(d, {"password", "token"}),
      (Append(d, "..data") :> Dir) @@ FilesIn(Append(d, "..data"), {"token"})
        @@ (Append(d, "token") :> Link(P(FALSE, <<"..data", "token">>)))
        @@ (Append(d, "data") :> Link(P(FALSE, <<"..data">>))),
      FilesIn(d, {"token"}) @@ (Append(d, "subdir") :> Dir)
        @@ FilesIn(Append(d, "subdir"), {"token"}),
      Append(d, "token") :> Link(P(FALSE, <<"nowhere">>)) }

SecretNodesB ==
  LET d == <<"b", "secret1">> IN
    { NoNodes, FilesIn(d, {"token"}), FilesIn(d, {"password"}) }

SecretFileSystems ==
  {SecretBaseNodes @@ a @@ b : a \in SecretNodesA, b \in SecretNodesB}

SecretDirSpecs ==
  {SecretDir(src, name, optional) :
     src \in {P(TRUE, <<"a", "secret1">>), P(FALSE, <<"a", "secret1">>),
              P(TRUE, <<"b", "secret1">>), P(TRUE, <<"missing">>), P(TRUE, <<"f">>)},
     name \in {EmptyPath, P(FALSE, <<"x">>)},
     optional \in BOOLEAN}

SeqsUpTo(S, n) == UNION {[1..k -> S] : k \in 0..n}

InitSecrets ==
  /\ fs \in SecretFileSystems
  /\ cwd = RootPath
  /\ opts = Opts(EmptyPath, EmptyPath, EmptyPath)
  /\ pc = "start"
  /\ result = NoResult
  /\ run = NoRun
  /\ secretDirs \in SeqsUpTo(SecretDirSpecs, MaxSecretDirs)
  /\ secretsResult = NoSecrets
  /\ args = NoArgs
  /\ ret = NoRet

CallProcessSecretDirs ==
  /\ pc = "start"
  /\ secretsResult' = processSecretDirs(fs, cwd, secretDirs)
  /\ pc' = "done"
  /\ UNCHANGED <<fs, cwd, opts, result, run, secretDirs, args, ret>>

NextSecrets == CallProcessSecretDirs

SpecSecrets == InitSecrets /\ [][NextSecrets]_vars

\* --secret-dirs of a build started in /a/secret1: the directory named in
\* full, as ".", or through "..", with no name, a plain name, or a name
\* that filepath.Join cleans.
IdSecretDirSpecs ==
  {SecretDir(src, name, FALSE) :
     src \in {P(TRUE, <<"a", "secret1">>), DotPath, P(FALSE, <<"..", "..", "b", "secret1">>)},
     name \in {EmptyPath, P(FALSE, <<"x">>), DotPath, P(FALSE, <<"x", "..", "y">>)}}

InitSecretIds ==
  /\ fs \in SecretFileSystems
  /\ cwd = P(TRUE, <<"a", "secret1">>)
  /\ opts = Opts(EmptyPath, EmptyPath, EmptyPath)
  /\ pc = "start"
  /\ result = NoResult
  /\ run = NoRun
  /\ secretDirs \in SeqsUpTo(IdSecretDirSpecs, MaxSecretDirs)
  /\ secretsResult = NoSecrets
  /\ args = NoArgs
  /\ ret = NoRet

SpecSecretIds == InitSecretIds /\ [][NextSecrets]_vars

(***************************************************************************)
(* Build.buildImage and BuildahBuildArgs.MakePathsAbsolute                 *)
(***************************************************************************)

\* ensureAbsolute of MakePathsAbsolute resolving against the working
\* directory of the moment instead of baseDir.
ensureAbsolute_ignoresBaseDir(baseDir, wd, path) ==
  IF path.abs THEN path ELSE Abs(path, wd)

\* The closure ensureAbsolute of MakePathsAbsolute; wd is the working
\* directory filepath.Abs falls back on.
ensureAbsolute(baseDir, wd, path) ==
  IF path.abs THEN path ELSE Abs(Join(<<baseDir, path>>), wd)

\* MakePathsAbsolute on the Secrets of the build arguments.
MakePathsAbsolute(baseDir, wd, secrets) ==
  [k \in 1..Len(secrets) |->
     [Src |-> ensureAbsolute(baseDir, wd, secrets[k].Src), Id |-> secrets[k].Id]]

\* Params.Context of a build.
BuildContexts == {P(TRUE, <<"b">>), P(FALSE, <<"b">>), P(TRUE, <<"missing">>)}

\* The working directories a build is started in.
BuildCwds == {RootPath, P(TRUE, <<"a">>)}

\* The --secret-dirs of a build started in one of BuildCwds.
BuildSecretDirSpecs ==
  {SecretDir(P(TRUE, <<"a", "secret1">>), EmptyPath, FALSE),
   SecretDir(P(FALSE, <<"a", "secret1">>), P(FALSE, <<"x">>), FALSE),
   SecretDir(P(FALSE, <<"secret1">>), P(FALSE, <<"y">>), TRUE),
   SecretDir(P(FALSE, <<"..", "b", "secret1">>), EmptyPath, FALSE),
   SecretDir(P(FALSE, <<"missing">>), EmptyPath, TRUE)}

InitBuild ==
  /\ fs \in SecretFileSystems
  /\ cwd \in BuildCwds
  /\ opts = Opts(EmptyPath, EmptyPath, EmptyPath)
  /\ pc = "start"
  /\ result = NoResult
  /\ run = NoRun
  /\ secretDirs \in SeqsUpTo(BuildSecretDirSpecs, MaxSecretDirs)
  /\ secretsResult = NoSecrets
  /\ args = NoArgs
  /\ ret = NoRet

\* setSecretArgs failed and Run returns its error.
setSecretArgsFailed ==
  /\ pc = "done"
  /\ secretsResult.err # "nil"
  /\ pc' = "failed"
  /\ UNCHANGED <<fs, cwd, opts, result, run, secretDirs, secretsResult, args, ret>>

\* buildImage: os.Getwd, os.Chdir to the context directory, the build
\* arguments made absolute against the original working directory,
\* BuildahCli.Build, and the deferred os.Chdir back.  The Secrets slice of
\* the arguments is the slice setSecretArgs stored.
buildImage ==
  /\ pc = "done"
  /\ secretsResult.err = "nil"
  /\ \E context \in BuildContexts, built \in BOOLEAN :
       LET originalCwd == cwd
           chdir == Stat(fs, cwd, context)
       IN
         IF chdir.err # "nil" \/ chdir.kind # "dir"
           THEN pc' = "failed" /\ UNCHANGED secretsResult
         ELSE
           /\ secretsResult' =
                [secretsResult EXCEPT
                   !.secrets = MakePathsAbsolute(originalCwd, Abs(context, originalCwd), @)]
           /\ pc' = IF built THEN "built" ELSE "failed"
  /\ UNCHANGED <<fs, cwd, opts, result, run, secretDirs, args, ret>>

NextBuild ==
  \/ CallProcessSecretDirs
  \/ setSecretArgsFailed
  \/ buildImage

SpecBuild == InitBuild /\ [][NextBuild]_vars

(***************************************************************************)
(* Build.Run                                                               *)
(*                                                                         *)
(* The steps of Run in order; what the file system, the Containerfile      *)
(* parser and buildah answer is open.  ret.calls lists the calls made on   *)
(* BuildahCli and ResultsWriter with their outcome.                        *)
(***************************************************************************)

OutputRefs == {"quay.io/org/image:tag", "quay.io/org/other:tag"}

\* The digests BuildahCli.Push may return.
PushDigests == {"sha256:1", "sha256:2"}

BuildParams(outputRef, push, jsonOutput) ==
  [OutputRef |-> outputRef, Push |-> push, ContainerfileJsonOutput |-> jsonOutput]

\* A Build before Run: Results is the zero BuildResults.
NewBuild == [pcs |-> <<>>, err |-> "none", ImageUrl |-> "", Digest |-> "", calls |-> <<>>]

Called(fn, ok) == [fn |-> fn, ok |-> ok]

InitBuildRun ==
  /\ fs = NoNodes
  /\ cwd = RootPath
  /\ opts = Opts(EmptyPath, EmptyPath, EmptyPath)
  /\ pc = "validateParams"
  /\ result = NoResult
  /\ run = NoRun
  /\ secretDirs = <<>>
  /\ secretsResult = NoSecrets
  /\ \E outputRef \in OutputRefs, push \in BOOLEAN, jsonOutput \in {"", "containerfile.json"} :
       args = [fn |-> "Build.Run", Params |-> BuildParams(outputRef, push, jsonOutput)]
  /\ ret = NewBuild

\* Run returns err.
ReturnFromRun(err) ==
  /\ pc' = "returned"
  /\ ret' = [ret EXCEPT !.err = err, !.pcs = Append(@, pc)]

\* A step that makes no call on BuildahCli: on failure Run returns its
\* error, otherwise Run goes on to the step next.
StepOfRun(step, next) ==
  /\ pc = step
  /\ \E ok \in BOOLEAN :
       IF ok THEN pc' = next /\ ret' = [ret EXCEPT !.pcs = Append(@, pc)]
       ELSE ReturnFromRun(step)
  /\ UNCHANGED <<fs, cwd, opts, result, run, secretDirs, secretsResult, args>>

RunValidateParams == StepOfRun("validateParams", "detectContainerfile")

RunDetectContainerfile == StepOfRun("detectContainerfile", "parseContainerfile")

RunParseContainerfile == StepOfRun("parseContainerfile", "setSecretArgs")

RunSetSecretArgs == StepOfRun("setSecretArgs", "buildImage")

\* buildImage: it may fail before it reaches BuildahCli.Build; after a
\* build that succeeded Run sets Results.ImageUrl.
RunBuildImage ==
  /\ pc = "buildImage"
  /\ \E reached \in BOOLEAN, ok \in BOOLEAN :
       IF ~reached THEN ReturnFromRun("buildImage")
       ELSE IF ~ok
         THEN /\ pc' = "returned"
              /\ ret' = [ret EXCEPT !.err = "buildImage", !.pcs = Append(@, pc),
                                    !.calls = Append(@, Called("Build", FALSE))]
       ELSE /\ pc' = "pushImage"
            /\ ret' = [ret EXCEPT !.pcs = Append(@, pc),
                                  !.calls = Append(@, Called("Build", TRUE)),
                                  !.ImageUrl = args.Params.OutputRef]
  /\ UNCHANGED <<fs, cwd, opts, result, run, secretDirs, secretsResult, args>>

\* if c.Params.Push, with the test left out.
shouldPush_always(params) == TRUE

\* if c.Params.Push
shouldPush(params) == params.Push

\* The push of Run: pushImage when Params.Push is set.
RunPushImage ==
  /\ pc = "pushImage"
  /\ IF shouldPush(args.Params) THEN
       \E ok \in BOOLEAN, digest \in PushDigests :
         IF ok
           THEN /\ pc' = "writeContainerfileJson"
                /\ ret' = [ret EXCEPT !.pcs = Append(@, pc),
                                      !.calls = Append(@, Called("Push", TRUE)),
                                      !.Digest = digest]
         ELSE /\ pc' = "returned"
              /\ ret' = [ret EXCEPT !.err = "pushImage", !.pcs = Append(@, pc),
                                    !.calls = Append(@, Called("Push", FALSE))]
     ELSE pc' = "writeContainerfileJson" /\ ret' = [ret EXCEPT !.pcs = Append(@, pc)]
  /\ UNCHANGED <<fs, cwd, opts, result, run, secretDirs, secretsResult, args>>

\* writeContainerfileJson when Params.ContainerfileJsonOutput is set.
RunWriteContainerfileJson ==
  /\ pc = "writeContainerfileJson"
  /\ IF args.Params.ContainerfileJsonOutput # ""
       THEN \E ok \in BOOLEAN :
              IF ok THEN pc' = "createResultJson" /\ ret' = [ret EXCEPT !.pcs = Append(@, pc)]
              ELSE ReturnFromRun("writeContainerfileJson")
     ELSE pc' = "createResultJson" /\ ret' = [ret EXCEPT !.pcs = Append(@, pc)]
  /\ UNCHANGED <<fs, cwd, opts, result, run, secretDirs, secretsResult, args>>

\* ResultsWriter.CreateResultJson(c.Results), and the return of Run.
RunCreateResultJson ==
  /\ pc = "createResultJson"
  /\ \E ok \in BOOLEAN :
       /\ pc' = "returned"
       /\ ret' = [ret EXCEPT !.err = IF ok THEN "nil" ELSE "createResultJson",
                             !.pcs = Append(@, pc),
                             !.calls = Append(@, Called("CreateResultJson", ok))]
  /\ UNCHANGED <<fs, cwd, opts, result, run, secretDirs, secretsResult, args>>

NextBuildRun ==
  \/ RunValidateParams
  \/ RunDetectContainerfile
  \/ RunParseContainerfile
  \/ RunSetSecretArgs
  \/ RunBuildImage
  \/ RunPushImage
  \/ RunWriteContainerfileJson
  \/ RunCreateResultJson

SpecBuildRun == InitBuildRun /\ [][NextBuildRun]_vars

(***************************************************************************)
(* pkg/common: image references and registry authentication                *)
(*                                                                         *)
(* Image references, scope keys and credentials are sequences of           *)
(* characters; an auth string of the auth file is an opaque string.        *)
(***************************************************************************)

Digits == {"0", "1", "2", "3", "4", "5", "6", "7", "8", "9"}

LowerCase ==
  {"a", "b", "c", "d", "e", "f", "g", "h", "i", "j", "k", "l", "m",
   "n", "o", "p", "q", "r", "s", "t", "u", "v", "w", "x", "y", "z"}

UpperCase ==
  {"A", "B", "C", "D", "E", "F", "G", "H", "I", "J", "K", "L", "M",
   "N", "O", "P", "Q", "R", "S", "T", "U", "V", "W", "X", "Y", "Z"}

\* The character classes of the two suffix expressions.
HexChars == Digits \cup {"a", "b", "c", "d", "e", "f", "A", "B", "C", "D", "E", "F"}

TagFirstChars == LowerCase \cup UpperCase \cup Digits \cup {"_"}

TagChars == TagFirstChars \cup {".", "-"}

\* The match of an expression anchored at the end of the text removed:
\* starts are the positions where a match that reaches the end begins,
\* and the leftmost one is taken.
TrimSuffixAt(s, starts) ==
  IF starts = {} THEN s
  ELSE SubSeq(s, 1, (CHOOSE i \in starts : \A j \in starts : i <= j) - 1)

\* imageDigestSuffixRegex: @sha256:[a-fA-F0-9]{64}$
imageDigestSuffixRegex(s) ==
  {i \in 1..Len(s) :
     /\ Len(s) - i + 1 = 8 + 64
     /\ SubSeq(s, i, i + 7) = <<"@", "s", "h", "a", "2", "5", "6", ":">>
     /\ \A k \in (i + 8)..Len(s) : s[k] \in HexChars}

\* imageTagSuffixRegex: :[a-zA-Z0-9_][a-zA-Z0-9_.-]{0,127}$
imageTagSuffixRegex(s) ==
  {i \in 1..Len(s) :
     /\ s[i] = ":"
     /\ i + 1 <= Len(s)
     /\ s[i + 1] \in TagFirstChars
     /\ Len(s) - (i + 1) <= 127
     /\ \A k \in (i + 2)..Len(s) : s[k] \in TagChars}

\* GetImageName
GetImageName(imageURL) ==
  LET imageWithoutDigest == TrimSuffixAt(imageURL, imageDigestSuffixRegex(imageURL))
      image == TrimSuffixAt(imageWithoutDigest, imageTagSuffixRegex(imageWithoutDigest))
  IN image

\* strings.LastIndex for a single character, counted from 0; -1 if absent.
LastIndex(s, c) ==
  LET at == {i \in 1..Len(s) : s[i] = c} IN
    IF at = {} THEN -1 ELSE (CHOOSE i \in at : \A j \in at : j <= i) - 1

\* strings.Split(s, "/")[0]
FirstSegment(s) ==
  LET at == {i \in 1..Len(s) : s[i] = "/"} IN
    IF at = {} THEN s ELSE SubSeq(s, 1, (CHOOSE i \in at : \A j \in at : i <= j) - 1)

registryDockerIO == <<"d", "o", "c", "k", "e", "r", ".", "i", "o">>

registryIndexDockerIO == <<"h", "t", "t", "p", "s", ":", "/", "/", "i", "n", "d", "e", "x", ".", "d", "o", "c", "k", "e", "r", ".", "i", "o", "/", "v", "1", "/">>

\* The last part of findAuth trying the dockerhub scope for every registry.
findAuthFallback_anyRegistry(registryAuths, imageRepo) ==
  IF registryIndexDockerIO \in DOMAIN registryAuths
    THEN registryAuths[registryIndexDockerIO].Auth
  ELSE ""

\* The last part of findAuth: the scope oras-login writes for dockerhub.
findAuthFallback(registryAuths, imageRepo) ==
  LET registry == FirstSegment(imageRepo) IN
    IF registry = registryDockerIO /\ registryIndexDockerIO \in DOMAIN registryAuths
      THEN registryAuths[registryIndexDockerIO].Auth
    ELSE ""

RECURSIVE findAuthLoop(_, _, _)

\* The loop of findAuth going on to the registry from the first scope
\* that is absent.
findAuthLoop_stripsToRegistry(registryAuths, imageRepo, authKey) ==
  IF authKey \in DOMAIN registryAuths THEN registryAuths[authKey].Auth
  ELSE
    LET index == LastIndex(authKey, "/") IN
      IF index < 0 THEN findAuthFallback(registryAuths, imageRepo)
      ELSE findAuthLoop(registryAuths, imageRepo, FirstSegment(authKey))

\* The loop of findAuth.
findAuthLoop(registryAuths, imageRepo, authKey) ==
  IF authKey \in DOMAIN registryAuths THEN registryAuths[authKey].Auth
  ELSE
    LET index == LastIndex(authKey, "/") IN
      IF index < 0 THEN findAuthFallback(registryAuths, imageRepo)
      ELSE findAuthLoop(registryAuths, imageRepo, SubSeq(authKey, 1, index))

\* findAuth
findAuth(registryAuths, imageRepo) == findAuthLoop(registryAuths, imageRepo, imageRepo)

\* What SelectRegistryAuth returns: a RegistryAuth, or an error and the
\* image reference or repository its message names.  imageRepo is the
\* repository path the call worked with.
AuthOk(imageRepo, registry, token) ==
  [err |-> "nil", Registry |-> registry, Token |-> token, named |-> <<>>,
   imageRepo |-> imageRepo]

AuthErr(imageRepo, e, named) ==
  [err |-> e, Registry |-> <<>>, Token |-> "", named |-> named, imageRepo |-> imageRepo]

\* readAuthFile: the auths of the file, or an error when the file cannot
\* be read or parsed.
readAuthFile(authFile) ==
  IF authFile.readable THEN [err |-> "nil", registryAuths |-> authFile.auths]
  ELSE [err |-> "read", registryAuths |-> <<>>]

\* SelectRegistryAuth handing on whatever findAuth returned.
SelectRegistryAuth_returnsEmptyToken(imageRef, authFile) ==
  LET imageRepo == GetImageName(imageRef)
      loaded == readAuthFile(authFile)
  IN
    IF imageRepo = <<>> THEN AuthErr(imageRepo, "invalid_reference", imageRef)
    ELSE IF loaded.err # "nil" THEN AuthErr(imageRepo, loaded.err, <<>>)
    ELSE AuthOk(imageRepo, FirstSegment(imageRepo), findAuth(loaded.registryAuths, imageRepo))

\* SelectRegistryAuth
SelectRegistryAuth(imageRef, authFile) ==
  LET imageRepo == GetImageName(imageRef)
      loaded == readAuthFile(authFile)
  IN
    IF imageRepo = <<>> THEN AuthErr(imageRepo, "invalid_reference", imageRef)
    ELSE IF loaded.err # "nil" THEN AuthErr(imageRepo, loaded.err, <<>>)
    ELSE
      LET token == findAuth(loaded.registryAuths, imageRepo) IN
        IF token = "" THEN AuthErr(imageRepo, "not_configured", imageRepo)
        ELSE AuthOk(imageRepo, FirstSegment(imageRepo), token)

\* Characters of the registries, path components, port, tag and digest of
\* the image references.
RegIO == <<"r", "e", "g", ".", "i", "o">>

NewRegIO == <<"n", "e", "w", "-", "r", "e", "g", ".", "i", "o">>

Port == <<":", "5", "0", "0", "0">>

Foo == <<"/", "f", "o", "o">>

Bar == <<"/", "b", "a", "r">>

Baz == <<"/", "b", "a", "z">>

Tag == <<":", "0", ".", "1">>

Digest == <<"@", "s", "h", "a", "2", "5", "6", ":">> \o [i \in 1..64 |-> IF i % 2 = 0 THEN "a" ELSE IF i % 3 = 0 THEN "F" ELSE "7"]

\* Image repositories: registry[:port] and path components.
ImageRepos ==
  {RegIO, RegIO \o Port, RegIO \o Foo, RegIO \o Foo \o Bar, RegIO \o Foo \o Bar \o Baz,
   RegIO \o Port \o Foo, registryDockerIO, registryDockerIO \o Foo,
   registryDockerIO \o Port, registryDockerIO \o Port \o Foo, NewRegIO \o Foo}

\* repo, repo:tag, repo@sha256:digest and repo:tag@sha256:digest.
ImageRefForm(repo, tagged, digested) ==
  repo \o (IF tagged THEN Tag ELSE <<>>) \o (IF digested THEN Digest ELSE <<>>)

\* The scope keys of the auth files and the auth string of each.
ScopeKeys ==
  {RegIO, RegIO \o Port, RegIO \o Foo \o Bar, registryDockerIO, registryIndexDockerIO}

AuthOf(scope) ==
  CASE scope = RegIO -> "reg.io token"
    [] scope = RegIO \o Port -> "reg.io:5000 token"
    [] scope = RegIO \o Foo \o Bar -> "reg.io-foo-bar token"
    [] scope = registryDockerIO -> "docker.io token"
    [] scope = registryIndexDockerIO -> "index.docker.io token"

\* The auth files: any of the scope keys, each with its auth string or
\* with an empty one.
AuthFiles ==
  UNION {[scopes -> {"set", "empty"}] : scopes \in SUBSET ScopeKeys}

AuthFileOf(choice) ==
  [readable |-> TRUE,
   auths |-> [scope \in DOMAIN choice |->
                [Auth |-> IF choice[scope] = "set" THEN AuthOf(scope) ELSE ""]]]

\* An auth file that cannot be read or parsed.
NoAuthFile == [readable |-> FALSE, auths |-> <<>>]

InitAuth ==
  /\ fs = NoNodes
  /\ cwd = RootPath
  /\ opts = Opts(EmptyPath, EmptyPath, EmptyPath)
  /\ pc = "start"
  /\ result = NoResult
  /\ run = NoRun
  /\ secretDirs = <<>>
  /\ secretsResult = NoSecrets
  /\ \E repo \in ImageRepos, tagged \in BOOLEAN, digested \in BOOLEAN,
        authFile \in {AuthFileOf(c) : c \in AuthFiles} \cup {NoAuthFile} :
       args = [fn |-> "SelectRegistryAuth", repo |-> repo, tagged |-> tagged,
               digested |-> digested,
               imageRef |-> ImageRefForm(repo, tagged, digested),
               authFile |-> authFile]
  /\ ret = NoRet

CallSelectRegistryAuth ==
  /\ pc = "start"
  /\ ret' = SelectRegistryAuth(args.imageRef, args.authFile)
  /\ pc' = "done"
  /\ UNCHANGED <<fs, cwd, opts, result, run, secretDirs, secretsResult, args>>

NextAuth == CallSelectRegistryAuth

SpecAuth == InitAuth /\ [][NextAuth]_vars

(***************************************************************************)
(* pkg/common: ExtractCredentials                                          *)
(*                                                                         *)
(* A decoded credential is a sequence of bytes, a token a sequence of      *)
(* characters.                                                             *)
(***************************************************************************)

\* The alphabet of base64.StdEncoding, value 0 first, and its padding.
encodeStd ==
  <<"A", "B", "C", "D", "E", "F", "G", "H", "I", "J", "K", "L", "M",
    "N", "O", "P", "Q", "R", "S", "T", "U", "V", "W", "X", "Y", "Z",
    "a", "b", "c", "d", "e", "f", "g", "h", "i", "j", "k", "l", "m",
    "n", "o", "p", "q", "r", "s", "t", "u", "v", "w", "x", "y", "z",
    "0", "1", "2", "3", "4", "5", "6", "7", "8", "9", "+", "/">>

StdPadding == "="

\* The value of a character of the alphabet.
decodeMap(c) == (CHOOSE i \in 1..64 : encodeStd[i] = c) - 1

IsStdChar(c) == \E i \in 1..64 : encodeStd[i] = c

\* The bytes of one quantum of four characters; the last one may end in
\* one or two padding characters, and bits that fill no byte are dropped.
decodeQuantum(q, last) ==
  LET pad == IF q[4] # StdPadding THEN 0 ELSE IF q[3] # StdPadding THEN 1 ELSE 2
      v(k) == IF k > 4 - pad THEN 0 ELSE decodeMap(q[k])
      n == v(1) * 262144 + v(2) * 4096 + v(3) * 64 + v(4)
      bytes == <<n \div 65536, (n \div 256) % 256, n % 256>>
  IN
    IF \/ ~IsStdChar(q[1]) \/ ~IsStdChar(q[2])
       \/ (pad < 2 /\ ~IsStdChar(q[3]))
       \/ (pad < 1 /\ ~IsStdChar(q[4]))
       \/ (pad > 0 /\ ~last)
      THEN [err |-> "corrupt", bytes |-> <<>>]
    ELSE [err |-> "nil", bytes |-> SubSeq(bytes, 1, 3 - pad)]

RECURSIVE decodeQuanta(_, _)
decodeQuanta(s, out) ==
  IF s = <<>> THEN [err |-> "nil", bytes |-> out]
  ELSE IF Len(s) < 4 THEN [err |-> "corrupt", bytes |-> <<>>]
  ELSE
    LET q == decodeQuantum(SubSeq(s, 1, 4), Len(s) = 4) IN
      IF q.err # "nil" THEN q
      ELSE decodeQuanta(SubSeq(s, 5, Len(s)), out \o q.bytes)

\* base64.StdEncoding.DecodeString: line breaks are passed over.
DecodeString(s) ==
  decodeQuanta(SelectSeq(s, LAMBDA c : c \notin {"\n", "\r"}), <<>>)

\* The byte of the separator ":".
Colon == 58

\* strings.SplitN cutting at the last separator.
SplitN2_lastSeparator(s) ==
  LET at == {i \in 1..Len(s) : s[i] = Colon} IN
    IF at = {} THEN <<s>>
    ELSE LET last == CHOOSE i \in at : \A j \in at : j <= i IN
      <<SubSeq(s, 1, last - 1), SubSeq(s, last + 1, Len(s))>>

\* strings.SplitN(s, ":", 2)
SplitN2(s) ==
  LET at == {i \in 1..Len(s) : s[i] = Colon} IN
    IF at = {} THEN <<s>>
    ELSE LET first == CHOOSE i \in at : \A j \in at : i <= j IN
      <<SubSeq(s, 1, first - 1), SubSeq(s, first + 1, Len(s))>>

CredOk(username, password) == [err |-> "nil", username |-> username, password |-> password]

CredErr(e) == [err |-> e, username |-> <<>>, password |-> <<>>]

\* ExtractCredentials
ExtractCredentials(authCred) ==
  LET decoded == DecodeString(authCred) IN
    IF decoded.err # "nil" THEN CredErr("decode")
    ELSE
      LET parts == SplitN2(decoded.bytes) IN
        IF Len(parts) # 2 THEN CredErr("format")
        ELSE CredOk(parts[1], parts[2])

\* The longest credential of the model, in bytes.
MaxCredentialLen == 4

\* The bytes of the credentials: ":", "u" and "p".
CredentialBytes == {Colon, 117, 112}

Credentials == UNION {[1..n -> CredentialBytes] : n \in 0..MaxCredentialLen}

RECURSIVE EncodeToString(_)
\* base64.StdEncoding.EncodeToString
EncodeToString(b) ==
  IF b = <<>> THEN <<>>
  ELSE
    LET k == IF Len(b) >= 3 THEN 3 ELSE Len(b)
        byte(i) == IF i <= k THEN b[i] ELSE 0
        n == byte(1) * 65536 + byte(2) * 256 + byte(3)
        c(i) == encodeStd[((n \div (64 ^ (4 - i))) % 64) + 1]
    IN
      <<c(1), c(2),
        IF k >= 2 THEN c(3) ELSE StdPadding,
        IF k >= 3 THEN c(4) ELSE StdPadding>>
        \o EncodeToString(SubSeq(b, k + 1, Len(b)))

\* Tokens that are not base64: a character outside the alphabet, padding
\* left out, padding before the end, padding at the start of a quantum.
MalformedTokens ==
  {<<"i", "n", "v", "a", "l", "i", "d", "-", "b", "a", "s", "e", "6", "4", "!", "@", "#">>, <<"d", "T", "o">>, <<"d", "Q", "=", "=", "d", "T", "p", "w">>, <<"=", "T", "p", "w">>}

\* The tokens ExtractCredentials is called with: the encodings of the
\* credentials, the same followed by a line break, and the malformed ones.
Tokens ==
  {EncodeToString(c) : c \in Credentials}
    \cup {EncodeToString(c) \o <<"\n">> : c \in Credentials}
    \cup MalformedTokens

InitCred ==
  /\ fs = NoNodes
  /\ cwd = RootPath
  /\ opts = Opts(EmptyPath, EmptyPath, EmptyPath)
  /\ pc = "start"
  /\ result = NoResult
  /\ run = NoRun
  /\ secretDirs = <<>>
  /\ secretsResult = NoSecrets
  /\ \E authCred \in Tokens : args = [fn |-> "ExtractCredentials", authCred |-> authCred]
  /\ ret = NoRet

CallExtractCredentials ==
  /\ pc = "start"
  /\ ret' = ExtractCredentials(args.authCred)
  /\ pc' = "done"
  /\ UNCHANGED <<fs, cwd, opts, result, run, secretDirs, secretsResult, args>>

NextCred == CallExtractCredentials

SpecCred == InitCred /\ [][NextCred]_vars

(***************************************************************************)
(* prefetch_dependencies: containsRPM, injectSummaryInSBOMField and        *)
(* injectSSLOptions                                                        *)
(*                                                                         *)
(* The decoded input lives in a heap of arrays ([]any) and objects         *)
(* (map[string]any), addressed 1, 2, ...; a value is a string, true or a   *)
(* reference to an array or object of the heap.                            *)
(***************************************************************************)

Str(s) == [k |-> "str", s |-> s, a |-> 0]

True == [k |-> "bool", s |-> "true", a |-> 0]

Ref(a) == [k |-> "ref", s |-> "", a |-> a]

\* What a map gives for a key it does not hold.
NoValue == [k |-> "absent", s |-> "", a |-> 0]

\* The keys of the objects of the model.
Keys ==
  {"type", "packages", "options", "ssl", "include_summary_in_sbom", "name",
   "client_key", "client_cert", "ca_bundle", "verify"}

NoFields == [key \in Keys |-> NoValue]

ArrayObj(items) == [t |-> "array", items |-> items, fields |-> NoFields]

MapObj(fields) == [t |-> "map", items |-> <<>>, fields |-> fields]

\* The type assertions .([]any) and .(map[string]any)
IsArray(h, v) == v.k = "ref" /\ h[v.a].t = "array"

IsMap(h, v) == v.k = "ref" /\ h[v.a].t = "map"

RECURSIVE containsRPM(_, _)

\* containsRPM
containsRPM(h, input) ==
  IF IsArray(h, input)
    THEN \E i \in 1..Len(h[input.a].items) : containsRPM(h, h[input.a].items[i])
  ELSE IF IsMap(h, input) THEN
    LET data == h[input.a].fields
        packages == data["packages"]
    IN
      \/ /\ IsArray(h, packages)
         /\ \E i \in 1..Len(h[packages.a].items) : containsRPM(h, h[packages.a].items[i])
      \/ data["type"] = Str("rpm")
  ELSE FALSE

RECURSIVE injectSummaryInSBOMField(_, _)
RECURSIVE injectSummaryItems(_, _, _)

\* The loops of injectSummaryInSBOMField: data[i] = injectSummaryInSBOMField(item)
injectSummaryItems(h, a, i) ==
  IF i > Len(h[a].items) THEN h
  ELSE
    LET r == injectSummaryInSBOMField(h, h[a].items[i]) IN
      injectSummaryItems([r.heap EXCEPT ![a].items[i] = r.value], a, i + 1)

\* injectSummaryInSBOMField that takes the flag away where it finds it.
injectSummaryInSBOMField_toggles(h, input) ==
  IF IsArray(h, input)
    THEN [heap |-> injectSummaryItems(h, input.a, 1), value |-> input]
  ELSE IF IsMap(h, input) THEN
    LET data == h[input.a].fields
        packages == data["packages"]
    IN
      IF IsArray(h, packages)
        THEN [heap |-> injectSummaryItems(h, packages.a, 1), value |-> input]
      ELSE IF data["type"] = Str("rpm")
        THEN [heap |-> [h EXCEPT ![input.a].fields["include_summary_in_sbom"] =
                                   IF @ = True THEN NoValue ELSE True],
              value |-> input]
      ELSE [heap |-> h, value |-> input]
  ELSE [heap |-> h, value |-> input]

\* injectSummaryInSBOMField: the heap it leaves and the value it returns.
injectSummaryInSBOMField(h, input) ==
  IF IsArray(h, input)
    THEN [heap |-> injectSummaryItems(h, input.a, 1), value |-> input]
  ELSE IF IsMap(h, input) THEN
    LET data == h[input.a].fields
        packages == data["packages"]
    IN
      IF IsArray(h, packages)
        THEN [heap |-> injectSummaryItems(h, packages.a, 1), value |-> input]
      ELSE IF data["type"] = Str("rpm")
        THEN [heap |-> [h EXCEPT ![input.a].fields["include_summary_in_sbom"] = True],
              value |-> input]
      ELSE [heap |-> h, value |-> input]
  ELSE [heap |-> h, value |-> input]

\* maps.Copy with its arguments exchanged.
mapsCopy_exchanged(h, dst, src) ==
  [h EXCEPT ![src].fields =
     [key \in Keys |-> IF h[dst].fields[key] # NoValue THEN h[dst].fields[key] ELSE @[key]]]

\* maps.Copy(dst, src) for the maps at the addresses dst and src.
mapsCopy(h, dst, src) ==
  [h EXCEPT ![dst].fields =
     [key \in Keys |-> IF h[src].fields[key] # NoValue THEN h[src].fields[key] ELSE @[key]]]

\* The rpm leaf of injectSSLOptions copying the entries of ssl into the
\* leaf itself.
injectSSLLeaf_flat(h, input, ssl) == [heap |-> mapsCopy(h, input.a, ssl.a), value |-> input]

\* The rpm leaf of injectSSLOptions putting the new block in the place of
\* an existing ssl map.
injectSSLLeaf_replaces(h, input, ssl) ==
  [heap |-> [Append(h, MapObj([NoFields EXCEPT !["ssl"] = ssl]))
               EXCEPT ![input.a].fields["options"] = Ref(Len(h) + 1)],
   value |-> input]

\* The rpm leaf of injectSSLOptions: an existing options.ssl map takes the
\* entries of ssl, otherwise options becomes a new map holding ssl.
injectSSLLeaf(h, input, ssl) ==
  LET data == h[input.a].fields
      existingOptions == data["options"]
      existingSSL == IF IsMap(h, existingOptions) THEN h[existingOptions.a].fields["ssl"]
                     ELSE NoValue
  IN
    IF IsMap(h, existingOptions) /\ IsMap(h, existingSSL)
      THEN [heap |-> mapsCopy(h, existingSSL.a, ssl.a), value |-> input]
    ELSE
      [heap |-> [Append(h, MapObj([NoFields EXCEPT !["ssl"] = ssl]))
                   EXCEPT ![input.a].fields["options"] = Ref(Len(h) + 1)],
       value |-> input]

RECURSIVE injectSSLOptions(_, _, _)
RECURSIVE injectSSLItems(_, _, _, _)

\* The loops of injectSSLOptions: data[i] = injectSSLOptions(item, ssl)
injectSSLItems(h, a, i, ssl) ==
  IF i > Len(h[a].items) THEN h
  ELSE
    LET r == injectSSLOptions(h, h[a].items[i], ssl) IN
      injectSSLItems([r.heap EXCEPT ![a].items[i] = r.value], a, i + 1, ssl)

\* injectSSLOptions: the heap it leaves and the value it returns.
injectSSLOptions(h, input, ssl) ==
  IF IsArray(h, input)
    THEN [heap |-> injectSSLItems(h, input.a, 1, ssl), value |-> input]
  ELSE IF IsMap(h, input) THEN
    LET data == h[input.a].fields
        packages == data["packages"]
    IN
      IF IsArray(h, packages)
        THEN [heap |-> injectSSLItems(h, packages.a, 1, ssl), value |-> input]
      ELSE IF data["type"] = Str("rpm") THEN injectSSLLeaf(h, input, ssl)
      ELSE [heap |-> h, value |-> input]
  ELSE [heap |-> h, value |-> input]

\* Decoded JSON as json.Unmarshal sees it, before it is laid out in the
\* heap: a string, an array of values, or an object as a list of
\* <<key, value>> pairs.
JString(s) == [k |-> "str", s |-> s, items |-> <<>>, fields |-> <<>>]

JArray(items) == [k |-> "arr", s |-> "", items |-> items, fields |-> <<>>]

JObject(fields) == [k |-> "obj", s |-> "", items |-> <<>>, fields |-> fields]

RECURSIVE Unmarshal(_, _)
RECURSIVE UnmarshalAll(_, _, _, _)

\* The values of the members i.. of pairs (or of items when pairs is
\* empty) laid out one after the other.
UnmarshalAll(h, members, i, out) ==
  IF i > Len(members) THEN [heap |-> h, values |-> out]
  ELSE
    LET r == Unmarshal(h, members[i]) IN
      UnmarshalAll(r.heap, members, i + 1, Append(out, r.value))

\* json.Unmarshal into an any: every array and object becomes a new
\* []any or map[string]any.
Unmarshal(h, j) ==
  IF j.k \notin {"arr", "obj"} THEN [heap |-> h, value |-> [k |-> j.k, s |-> j.s, a |-> 0]]
  ELSE IF j.k = "arr" THEN
    LET r == UnmarshalAll(h, j.items, 1, <<>>) IN
      [heap |-> Append(r.heap, ArrayObj(r.values)), value |-> Ref(Len(r.heap) + 1)]
  ELSE
    LET r == UnmarshalAll(h, [n \in 1..Len(j.fields) |-> j.fields[n][2]], 1, <<>>)
        fields == [key \in Keys |->
                     IF \E n \in 1..Len(j.fields) : j.fields[n][1] = key
                       THEN r.values[CHOOSE n \in 1..Len(j.fields) : j.fields[n][1] = key]
                     ELSE NoValue]
    IN
      [heap |-> Append(r.heap, MapObj(fields)), value |-> Ref(Len(r.heap) + 1)]

\* The longest array of an input.
MaxItems == 2

ArraysOf(S) == {JArray(items) : items \in UNION {[1..n -> S] : n \in 0..MaxItems}}

\* ssl maps an input may already hold.
ExistingSSL ==
  {JObject(<<>>),
   JObject(<< <<"client_key", JString("my_client_key")>> >>),
   JObject(<< <<"client_key", JString("my_client_key")>>, <<"verify", JString("no")>> >>)}

\* options an input may hold: without ssl, with an ssl map, with an ssl
\* that is not a map.
ExistingOptions ==
  {JObject(<< <<"name", JString("x")>> >>),
   JObject(<< <<"ssl", JString("off")>>, <<"name", JString("x")>> >>)}
    \cup {JObject(<< <<"ssl", m>> >>) : m \in ExistingSSL}

RPM == JObject(<< <<"type", JString("rpm")>> >>)

Yarn == JObject(<< <<"type", JString("yarn")>> >>)

RPMWith(options) == JObject(<< <<"type", JString("rpm")>>, <<"options", options>> >>)

\* Objects without a packages array.
Leaves ==
  {RPM, Yarn, JObject(<<>>),
   JObject(<< <<"type", JString("rpm")>>, <<"packages", JString("x")>> >>),
   JObject(<< <<"type", JString("yarn")>>,
              <<"options", JObject(<< <<"ssl", JObject(<<>>)>> >>)>> >>)}
    \cup {RPMWith(o) : o \in ExistingOptions}

SomeLeaves ==
  {RPM, Yarn, JObject(<<>>),
   RPMWith(JObject(<< <<"ssl", JObject(<< <<"client_key", JString("my_client_key")>>,
                                          <<"verify", JString("no")>> >>)>> >>))}

\* Objects with a packages array, with or without a type of their own.
PackageLists ==
  {JObject(<< <<"packages", p>> >>) : p \in ArraysOf(SomeLeaves)}
    \cup {JObject(<< <<"type", JString(t)>>, <<"packages", p>> >>) :
            t \in {"rpm", "yarn"}, p \in ArraysOf(SomeLeaves)}

\* The decoded inputs: a string, a package, a package list, or an array
\* of packages, package lists and arrays.
Inputs ==
  {JString("rpm")} \cup Leaves \cup PackageLists
    \cup ArraysOf(SomeLeaves
                    \cup {JObject(<< <<"packages", JArray(<<RPM>>)>> >>),
                          JObject(<< <<"type", JString("rpm")>>, <<"packages", JArray(<<>>)>> >>),
                          JArray(<<RPM>>)})

\* The SSL blocks: the one injectRPMInput builds and a smaller one.
SSLBlocks ==
  {JObject(<< <<"client_key", JString("client_key")>>,
              <<"client_cert", JString("client_cert")>>,
              <<"ca_bundle", JString("ca_bundle")>> >>),
   JObject(<< <<"client_cert", JString("client_cert")>> >>)}

InitInject ==
  /\ fs = NoNodes
  /\ cwd = RootPath
  /\ opts = Opts(EmptyPath, EmptyPath, EmptyPath)
  /\ pc = "start"
  /\ result = NoResult
  /\ run = NoRun
  /\ secretDirs = <<>>
  /\ secretsResult = NoSecrets
  /\ \E j \in Inputs, block \in SSLBlocks :
       LET input == Unmarshal(<<>>, j)
           ssl == Unmarshal(input.heap, block)
       IN
         /\ args = [fn |-> "injectRPMInput", heap |-> ssl.heap, input |-> input.value,
                    ssl |-> ssl.value]
         /\ ret = [contains |-> FALSE, heap |-> ssl.heap, value |-> input.value]

CallContainsRPM ==
  /\ pc = "start"
  /\ ret' = [ret EXCEPT !.contains = containsRPM(ret.heap, ret.value)]
  /\ pc' = "checked"
  /\ UNCHANGED <<fs, cwd, opts, result, run, secretDirs, secretsResult, args>>

CallInjectSummaryInSBOMField ==
  /\ pc = "checked"
  /\ ret' = [contains |-> ret.contains] @@ injectSummaryInSBOMField(ret.heap, ret.value)
  /\ pc' = "summary"
  /\ UNCHANGED <<fs, cwd, opts, result, run, secretDirs, secretsResult, args>>

\* injectSSLOptions on the decoded input, or on what
\* injectSummaryInSBOMField returned as injectRPMInput calls it.
CallInjectSSLOptions ==
  /\ pc \in {"checked", "summary"}
  /\ ret' = [contains |-> ret.contains] @@ injectSSLOptions(ret.heap, ret.value, args.ssl)
  /\ pc' = IF pc = "checked" THEN "ssl" ELSE "summary_ssl"
  /\ UNCHANGED <<fs, cwd, opts, result, run, secretDirs, secretsResult, args>>

NextInject ==
  \/ CallContainsRPM
  \/ CallInjectSummaryInSBOMField
  \/ CallInjectSSLOptions

SpecInject == InitInject /\ [][NextInject]_vars

\* injectSummaryInSBOMField on what injectSummaryInSBOMField returned.
CallInjectSummaryAgain ==
  /\ pc = "summary"
  /\ ret' = [contains |-> ret.contains] @@ injectSummaryInSBOMField(ret.heap, ret.value)
  /\ pc' = "summary_twice"
  /\ UNCHANGED <<fs, cwd, opts, result, run, secretDirs, secretsResult, args>>

\* containsRPM on what injectSummaryInSBOMField returned.
CallContainsRPMAgain ==
  /\ pc \in {"summary", "summary_twice"}
  /\ ret' = [ret EXCEPT !.contains = containsRPM(ret.heap, ret.value)]
  /\ pc' = IF pc = "summary" THEN "rechecked" ELSE "rechecked_twice"
  /\ UNCHANGED <<fs, cwd, opts, result, run, secretDirs, secretsResult, args>>

NextReinject ==
  \/ CallContainsRPM
  \/ CallInjectSummaryInSBOMField
  \/ CallInjectSummaryAgain
  \/ CallContainsRPMAgain

SpecReinject == InitInject /\ [][NextReinject]_vars

(***************************************************************************)
(* prefetch_dependencies: parseInput                                       *)
(*                                                                         *)
(* A raw input is a string; Text gives its characters.  The decoder reads  *)
(* the JSON grammar over the characters that occur in the raw inputs of    *)
(* the model: space, the punctuation of arrays and objects, strings        *)
(* without escapes, integers, and the literals true, false and null.       *)
(***************************************************************************)

\* The values of --input.
RawInputs ==
  {"{\"type\": \"rpm\"}",
   "{\"type\": \"yarn\"}",
   "\"rpm\"",
   "[]",
   "{}",
   "[{\"type\": \"rpm\"}]",
   "{\"packages\": [{\"type\": \"rpm\"}]}",
   "null",
   "true",
   "false",
   "1",
   "0",
   "-1",
   "10",
   " {\"type\": \"rpm\"} ",
   "[\"rpm\"]",
   "{\"packages\": []}",
   "{\"type\":\"rpm\",\"packages\":[]}",
   "[{\"type\": \"yarn\"}, {\"type\": \"rpm\"}]",
   "{\"name\": \"rpm\"}",
   "[[]]",
   "\"\"",
   "rpm",
   "yarn",
   "",
   " ",
   "{",
   "[",
   "]",
   "{\"type\": \"rpm\"",
   "{\"type\": \"rpm\"}}",
   "\"rpm",
   "rpm\"",
   "{type: rpm}",
   "[rpm]",
   "{\"type\" \"rpm\"}",
   "{\"type\": \"rpm\",}",
   "[,]",
   "[\"rpm\",]",
   "tru",
   "nul",
   "rpm yarn",
   "{\"type\": \"rpm\"} x",
   "01",
   "-",
   "[] []",
   "{\"type\"}",
   "{1: \"rpm\"}",
   "True",
   "[1 1]"}

\* The characters of every string that occurs in a raw input.
Text ==
  [t \in RawInputs \cup {"type", "packages", "name"} |->
     CASE t = "{\"type\": \"rpm\"}" -> <<"{", "\"", "t", "y", "p", "e", "\"", ":", " ", "\"", "r", "p", "m", "\"", "}">>
       [] t = "{\"type\": \"yarn\"}" -> <<"{", "\"", "t", "y", "p", "e", "\"", ":", " ", "\"", "y", "a", "r", "n", "\"", "}">>
       [] t = "\"rpm\"" -> <<"\"", "r", "p", "m", "\"">>
       [] t = "[]" -> <<"[", "]">>
       [] t = "{}" -> <<"{", "}">>
       [] t = "[{\"type\": \"rpm\"}]" -> <<"[", "{", "\"", "t", "y", "p", "e", "\"", ":", " ", "\"", "r", "p", "m", "\"", "}", "]">>
       [] t = "{\"packages\": [{\"type\": \"rpm\"}]}" -> <<"{", "\"", "p", "a", "c", "k", "a", "g", "e", "s", "\"", ":", " ", "[", "{", "\"", "t", "y", "p", "e", "\"", ":", " ", "\"", "r", "p", "m", "\"", "}", "]", "}">>
       [] t = "null" -> <<"n", "u", "l", "l">>
       [] t = "true" -> <<"t", "r", "u", "e">>
       [] t = "false" -> <<"f", "a", "l", "s", "e">>
       [] t = "1" -> <<"1">>
       [] t = "0" -> <<"0">>
       [] t = "-1" -> <<"-", "1">>
       [] t = "10" -> <<"1", "0">>
       [] t = " {\"type\": \"rpm\"} " -> <<" ", "{", "\"", "t", "y", "p", "e", "\"", ":", " ", "\"", "r", "p", "m", "\"", "}", " ">>
       [] t = "[\"rpm\"]" -> <<"[", "\"", "r", "p", "m", "\"", "]">>
       [] t = "{\"packages\": []}" -> <<"{", "\"", "p", "a", "c", "k", "a", "g", "e", "s", "\"", ":", " ", "[", "]", "}">>
       [] t = "{\"type\":\"rpm\",\"packages\":[]}" -> <<"{", "\"", "t", "y", "p", "e", "\"", ":", "\"", "r", "p", "m", "\"", ",", "\"", "p", "a", "c", "k", "a", "g", "e", "s", "\"", ":", "[", "]", "}">>
       [] t = "[{\"type\": \"yarn\"}, {\"type\": \"rpm\"}]" -> <<"[", "{", "\"", "t", "y", "p", "e", "\"", ":", " ", "\"", "y", "a", "r", "n", "\"", "}", ",", " ", "{", "\"", "t", "y", "p", "e", "\"", ":", " ", "\"", "r", "p", "m", "\"", "}", "]">>
       [] t = "{\"name\": \"rpm\"}" -> <<"{", "\"", "n", "a", "m", "e", "\"", ":", " ", "\"", "r", "p", "m", "\"", "}">>
       [] t = "[[]]" -> <<"[", "[", "]", "]">>
       [] t = "\"\"" -> <<"\"", "\"">>
       [] t = "rpm" -> <<"r", "p", "m">>
       [] t = "yarn" -> <<"y", "a", "r", "n">>
       [] t = "" -> <<>>
       [] t = " " -> <<" ">>
       [] t = "{" -> <<"{">>
       [] t = "[" -> <<"[">>
       [] t = "]" -> <<"]">>
       [] t = "{\"type\": \"rpm\"" -> <<"{", "\"", "t", "y", "p", "e", "\"", ":", " ", "\"", "r", "p", "m", "\"">>
       [] t = "{\"type\": \"rpm\"}}" -> <<"{", "\"", "t", "y", "p", "e", "\"", ":", " ", "\"", "r", "p", "m", "\"", "}", "}">>
       [] t = "\"rpm" -> <<"\"", "r", "p", "m">>
       [] t = "rpm\"" -> <<"r", "p", "m", "\"">>
       [] t = "{type: rpm}" -> <<"{", "t", "y", "p", "e", ":", " ", "r", "p", "m", "}">>
       [] t = "[rpm]" -> <<"[", "r", "p", "m", "]">>
       [] t = "{\"type\" \"rpm\"}" -> <<"{", "\"", "t", "y", "p", "e", "\"", " ", "\"", "r", "p", "m", "\"", "}">>
       [] t = "{\"type\": \"rpm\",}" -> <<"{", "\"", "t", "y", "p", "e", "\"", ":", " ", "\"", "r", "p", "m", "\"", ",", "}">>
       [] t = "[,]" -> <<"[", ",", "]">>
       [] t = "[\"rpm\",]" -> <<"[", "\"", "r", "p", "m", "\"", ",", "]">>
       [] t = "tru" -> <<"t", "r", "u">>
       [] t = "nul" -> <<"n", "u", "l">>
       [] t = "rpm yarn" -> <<"r", "p", "m", " ", "y", "a", "r", "n">>
       [] t = "{\"type\": \"rpm\"} x" -> <<"{", "\"", "t", "y", "p", "e", "\"", ":", " ", "\"", "r", "p", "m", "\"", "}", " ", "x">>
       [] t = "01" -> <<"0", "1">>
       [] t = "-" -> <<"-">>
       [] t = "[] []" -> <<"[", "]", " ", "[", "]">>
       [] t = "{\"type\"}" -> <<"{", "\"", "t", "y", "p", "e", "\"", "}">>
       [] t = "{1: \"rpm\"}" -> <<"{", "1", ":", " ", "\"", "r", "p", "m", "\"", "}">>
       [] t = "True" -> <<"T", "r", "u", "e">>
       [] t = "[1 1]" -> <<"[", "1", " ", "1", "]">>
       [] t = "type" -> <<"t", "y", "p", "e">>
       [] t = "packages" -> <<"p", "a", "c", "k", "a", "g", "e", "s">>
       [] t = "name" -> <<"n", "a", "m", "e">>]

\* The string with the given characters.
StringOf(chars) == CHOOSE t \in DOMAIN Text : Text[t] = chars

\* A JSON scalar other than a string: a number, true, false or null.
JScalar(kind, s) == [k |-> kind, s |-> s, items |-> <<>>, fields |-> <<>>]

DecodeOk(j, next) == [ok |-> TRUE, j |-> j, next |-> next]

DecodeErr == [ok |-> FALSE, j |-> JString(""), next |-> 0]

RECURSIVE SkipSpace(_, _)
\* The first position from i on that holds no space.
SkipSpace(s, i) == IF i <= Len(s) /\ s[i] = " " THEN SkipSpace(s, i + 1) ELSE i

\* The literal word at position i.
decodeLiteral(s, i, word, j) ==
  IF i + Len(word) - 1 <= Len(s) /\ SubSeq(s, i, i + Len(word) - 1) = word
    THEN DecodeOk(j, i + Len(word))
  ELSE DecodeErr

\* The string that opens at position i: it runs to the next quote.
decodeString(s, i) ==
  IF \E n \in (i + 1)..Len(s) : s[n] = "\""
    THEN LET close == CHOOSE n \in (i + 1)..Len(s) :
                        s[n] = "\"" /\ \A m \in (i + 1)..(n - 1) : s[m] # "\""
         IN DecodeOk(JString(StringOf(SubSeq(s, i + 1, close - 1))), close + 1)
  ELSE DecodeErr

RECURSIVE SkipDigits(_, _)
SkipDigits(s, i) == IF i <= Len(s) /\ s[i] \in Digits THEN SkipDigits(s, i + 1) ELSE i

\* The integer at position i: an optional minus sign, then 0 or a
\* number without leading zero.
decodeNumber(s, i) ==
  LET first == IF s[i] = "-" THEN i + 1 ELSE i IN
    IF first > Len(s) \/ s[first] \notin Digits THEN DecodeErr
    ELSE
      LET end == IF s[first] = "0" THEN first + 1 ELSE SkipDigits(s, first) IN
        DecodeOk(JScalar("num", StringOf(SubSeq(s, i, end - 1))), end)

RECURSIVE decodeValue(_, _)
RECURSIVE decodeElements(_, _, _)
RECURSIVE decodeMembers(_, _, _)

\* The elements of an array from position i on, after the elements in
\* items: a value, then "," and more elements, or "]".
decodeElements(s, i, items) ==
  LET v == decodeValue(s, i) IN
    IF ~v.ok THEN DecodeErr
    ELSE
      LET n == SkipSpace(s, v.next) IN
        IF n > Len(s) THEN DecodeErr
        ELSE IF s[n] = "," THEN decodeElements(s, n + 1, Append(items, v.j))
        ELSE IF s[n] = "]" THEN DecodeOk(JArray(Append(items, v.j)), n + 1)
        ELSE DecodeErr

\* The members of an object from position i on, after the members in
\* fields: a string, ":", a value, then "," and more members, or "}".
decodeMembers(s, i, fields) ==
  LET k == SkipSpace(s, i) IN
    IF k > Len(s) \/ s[k] # "\"" THEN DecodeErr
    ELSE
      LET key == decodeString(s, k) IN
        IF ~key.ok THEN DecodeErr
        ELSE
          LET c == SkipSpace(s, key.next) IN
            IF c > Len(s) \/ s[c] # ":" THEN DecodeErr
            ELSE
              LET v == decodeValue(s, c + 1) IN
                IF ~v.ok THEN DecodeErr
                ELSE
                  LET n == SkipSpace(s, v.next) IN
                    IF n > Len(s) THEN DecodeErr
                    ELSE IF s[n] = ","
                      THEN decodeMembers(s, n + 1, Append(fields, <<key.j.s, v.j>>))
                    ELSE IF s[n] = "}"
                      THEN DecodeOk(JObject(Append(fields, <<key.j.s, v.j>>)), n + 1)
                    ELSE DecodeErr

\* The JSON value that starts at or after position i.
decodeValue(s, i) ==
  LET b == SkipSpace(s, i) IN
    IF b > Len(s) THEN DecodeErr
    ELSE IF s[b] = "\"" THEN decodeString(s, b)
    ELSE IF s[b] = "t" THEN decodeLiteral(s, b, <<"t", "r", "u", "e">>, JScalar("bool", "true"))
    ELSE IF s[b] = "f"
      THEN decodeLiteral(s, b, <<"f", "a", "l", "s", "e">>, JScalar("bool", "false"))
    ELSE IF s[b] = "n" THEN decodeLiteral(s, b, <<"n", "u", "l", "l">>, JScalar("null", "null"))
    ELSE IF s[b] = "-" \/ s[b] \in Digits THEN decodeNumber(s, b)
    ELSE IF s[b] = "[" THEN
      LET n == SkipSpace(s, b + 1) IN
        IF n <= Len(s) /\ s[n] = "]" THEN DecodeOk(JArray(<<>>), n + 1)
        ELSE decodeElements(s, b + 1, <<>>)
    ELSE IF s[b] = "{" THEN
      LET n == SkipSpace(s, b + 1) IN
        IF n <= Len(s) /\ s[n] = "}" THEN DecodeOk(JObject(<<>>), n + 1)
        ELSE decodeMembers(s, b + 1, <<>>)
    ELSE DecodeErr

\* json.Unmarshal that stops after the first value.
jsonUnmarshal_firstValue(s) == decodeValue(s, 1)

\* json.Unmarshal of a whole text: one value, with nothing but space
\* after it.
jsonUnmarshal(s) ==
  LET v == decodeValue(s, 1) IN
    IF v.ok /\ SkipSpace(s, v.next) > Len(s) THEN v ELSE DecodeErr

\* parseInput, with the decoded value laid out in heap h.
parseInput(h, input) ==
  LET decoded == jsonUnmarshal(Text[input]) IN
    IF ~decoded.ok
      THEN [heap |-> Append(h, MapObj([NoFields EXCEPT !["type"] = Str(input)])),
            value |-> Ref(Len(h) + 1)]
    ELSE Unmarshal(h, decoded.j)

InitParse ==
  /\ fs = NoNodes
  /\ cwd = RootPath
  /\ opts = Opts(EmptyPath, EmptyPath, EmptyPath)
  /\ pc = "raw"
  /\ result = NoResult
  /\ run = NoRun
  /\ secretDirs = <<>>
  /\ secretsResult = NoSecrets
  /\ \E raw \in RawInputs, block \in SSLBlocks :
       LET ssl == Unmarshal(<<>>, block) IN
         /\ args = [fn |-> "parseInput", raw |-> raw, heap |-> ssl.heap, input |-> NoValue,
                    ssl |-> ssl.value]
         /\ ret = [contains |-> FALSE, heap |-> ssl.heap, value |-> NoValue]

\* decodedJSONInput := parseInput(pd.Config.Input)
CallParseInput ==
  /\ pc = "raw"
  /\ ret' = [contains |-> FALSE] @@ parseInput(args.heap, args.raw)
  /\ args' = [args EXCEPT !.heap = ret'.heap, !.input = ret'.value]
  /\ pc' = "start"
  /\ UNCHANGED <<fs, cwd, opts, result, run, secretDirs, secretsResult>>

NextParse ==
  \/ CallParseInput
  \/ CallContainsRPM
  \/ CallInjectSummaryInSBOMField
  \/ CallInjectSSLOptions

SpecParse == InitParse /\ [][NextParse]_vars

(***************************************************************************)
(* PrefetchDependencies.Run                                                *)
(*                                                                         *)
(* The steps of Run in order; what hermeto, the file system and            *)
(* subscription-manager answer is open.  ret.calls lists the               *)
(* subscription-manager commands executed.                                 *)
(***************************************************************************)

\* The values of --input of a run.
PrefetchInputs ==
  {"", "rpm", "yarn", "{\"type\": \"rpm\"}", "{\"type\": \"yarn\"}",
   "[{\"type\": \"yarn\"}, {\"type\": \"rpm\"}]", "{\"packages\": []}"}

\* The values of --rhsm-org and --rhsm-activation-key: not given, or a path.
RHSMPaths == {"", "/etc/rhsm/path"}

InitPrefetch ==
  /\ fs = NoNodes
  /\ cwd = RootPath
  /\ opts = Opts(EmptyPath, EmptyPath, EmptyPath)
  /\ pc = "Version"
  /\ result = NoResult
  /\ run = NoRun
  /\ secretDirs = <<>>
  /\ secretsResult = NoSecrets
  /\ \E input \in PrefetchInputs, org \in RHSMPaths, key \in RHSMPaths :
       args = [fn |-> "PrefetchDependencies.Run",
               Config |-> [Input |-> input, RHSMOrg |-> org, RHSMActivationKey |-> key]]
  /\ ret = [err |-> "none", deferred |-> FALSE, calls |-> <<>>]

\* Run returns err: the deferred unregisterSubscriptionManager runs.
ReturnFromPrefetch(r, err) ==
  /\ pc' = "returned"
  /\ ret' = [r EXCEPT !.err = err,
                      !.calls = IF r.deferred THEN Append(@, "unregister") ELSE @]

\* A step of Run that either fails, and Run returns its error, or lets Run
\* go on.
StepOfPrefetch(step, next) ==
  /\ pc = step
  /\ \E ok \in BOOLEAN :
       IF ok THEN pc' = next /\ UNCHANGED ret ELSE ReturnFromPrefetch(ret, step)
  /\ UNCHANGED <<fs, cwd, opts, result, run, secretDirs, secretsResult, args>>

PrefetchVersion == StepOfPrefetch("Version", "Input")

\* if pd.Config.Input == ""
PrefetchCheckInput ==
  /\ pc = "Input"
  /\ IF args.Config.Input = "" THEN ReturnFromPrefetch(ret, "nil")
     ELSE pc' = "dropGoProxyFrom" /\ UNCHANGED ret
  /\ UNCHANGED <<fs, cwd, opts, result, run, secretDirs, secretsResult, args>>

PrefetchDropGoProxy == StepOfPrefetch("dropGoProxyFrom", "setupGitBasicAuth")

PrefetchSetupGitBasicAuth == StepOfPrefetch("setupGitBasicAuth", "parseInput")

\* parseInput, containsRPM and the defer of unregisterSubscriptionManager.
PrefetchParseInput ==
  /\ pc = "parseInput"
  /\ LET decodedJSONInput == parseInput(<<>>, args.Config.Input) IN
       IF containsRPM(decodedJSONInput.heap, decodedJSONInput.value)
         THEN pc' = "injectRPMInput" /\ ret' = [ret EXCEPT !.deferred = TRUE]
       ELSE pc' = "FetchDeps" /\ UNCHANGED ret
  /\ UNCHANGED <<fs, cwd, opts, result, run, secretDirs, secretsResult, args>>

\* injectRPMInput: without both RHSM paths it returns after the summary
\* injection; registerSubscriptionManager may fail before it executes the
\* register command (tool missing, a file unreadable) or in it; then the
\* entitlement files may be missing.
PrefetchInjectRPMInput ==
  /\ pc = "injectRPMInput"
  /\ IF args.Config.RHSMOrg = "" \/ args.Config.RHSMActivationKey = ""
       THEN pc' = "FetchDeps" /\ UNCHANGED ret
     ELSE
       \E prepared \in BOOLEAN, registered \in BOOLEAN, entitled \in BOOLEAN :
         IF ~prepared THEN ReturnFromPrefetch(ret, "injectRPMInput")
         ELSE IF ~registered \/ ~entitled
           THEN ReturnFromPrefetch([ret EXCEPT !.calls = Append(@, "register")],
                                   "injectRPMInput")
         ELSE pc' = "FetchDeps" /\ ret' = [ret EXCEPT !.calls = Append(@, "register")]
  /\ UNCHANGED <<fs, cwd, opts, result, run, secretDirs, secretsResult, args>>

PrefetchFetchDeps == StepOfPrefetch("FetchDeps", "GenerateEnv")

PrefetchGenerateEnv == StepOfPrefetch("GenerateEnv", "InjectFiles")

PrefetchInjectFiles == StepOfPrefetch("InjectFiles", "renameRepoFiles")

\* renameRepoFiles and the return of Run.
PrefetchRenameRepoFiles ==
  /\ pc = "renameRepoFiles"
  /\ \E ok \in BOOLEAN : ReturnFromPrefetch(ret, IF ok THEN "nil" ELSE "renameRepoFiles")
  /\ UNCHANGED <<fs, cwd, opts, result, run, secretDirs, secretsResult, args>>

NextPrefetch ==
  \/ PrefetchVersion
  \/ PrefetchCheckInput
  \/ PrefetchDropGoProxy
  \/ PrefetchSetupGitBasicAuth
  \/ PrefetchParseInput
  \/ PrefetchInjectRPMInput
  \/ PrefetchFetchDeps
  \/ PrefetchGenerateEnv
  \/ PrefetchInjectFiles
  \/ PrefetchRenameRepoFiles

SpecPrefetch == InitPrefetch /\ [][NextPrefetch]_vars

(***************************************************************************)
(* build: parseSecretDirs                                                  *)
(*                                                                         *)
(* An element of --secret-dirs is a string; ArgText gives its characters.  *)
(* The parsed src, name and the value of an error are character sequences. *)
(***************************************************************************)

\* The most elements of --secret-dirs in one run.
MaxSecretDirArgs == 2

\* The elements of --secret-dirs.
SecretDirArgs ==
  {"/p",
   "src=/p",
   "src=/p,name=n",
   "src=/p,optional=true",
   "src=/p,optional=false",
   "src=/p,optional=maybe",
   "src=/p,optional=True",
   "src=/p,optional=TRUE",
   "src=/p,optional=",
   "src=/p,optional= true",
   "src=/p,optional=false ",
   "src=/p,optional=\ttrue",
   "src=/p,optional=truee",
   "src=/p,optional=tru",
   "src=/p,optional=1",
   "src=/p,optional",
   "src=/p, optional = false",
   "optional=false,src=/p",
   "src=/p,invalid=value",
   "invalid=value,optional=maybe",
   "src=/p,optional=maybe,invalid=value",
   "src=/p,optional=true=false",
   "src=/p,optional=true,optional=maybe",
   "src=/p,optional=maybe,optional=true",
   ""}

ArgText ==
  [t \in SecretDirArgs |->
     CASE t = "/p" -> <<"/", "p">>
       [] t = "src=/p" -> <<"s", "r", "c", "=", "/", "p">>
       [] t = "src=/p,name=n" -> <<"s", "r", "c", "=", "/", "p", ",", "n", "a", "m", "e", "=", "n">>
       [] t = "src=/p,optional=true" -> <<"s", "r", "c", "=", "/", "p", ",", "o", "p", "t", "i", "o", "n", "a", "l", "=", "t", "r", "u", "e">>
       [] t = "src=/p,optional=false" -> <<"s", "r", "c", "=", "/", "p", ",", "o", "p", "t", "i", "o", "n", "a", "l", "=", "f", "a", "l", "s", "e">>
       [] t = "src=/p,optional=maybe" -> <<"s", "r", "c", "=", "/", "p", ",", "o", "p", "t", "i", "o", "n", "a", "l", "=", "m", "a", "y", "b", "e">>
       [] t = "src=/p,optional=True" -> <<"s", "r", "c", "=", "/", "p", ",", "o", "p", "t", "i", "o", "n", "a", "l", "=", "T", "r", "u", "e">>
       [] t = "src=/p,optional=TRUE" -> <<"s", "r", "c", "=", "/", "p", ",", "o", "p", "t", "i", "o", "n", "a", "l", "=", "T", "R", "U", "E">>
       [] t = "src=/p,optional=" -> <<"s", "r", "c", "=", "/", "p", ",", "o", "p", "t", "i", "o", "n", "a", "l", "=">>
       [] t = "src=/p,optional= true" -> <<"s", "r", "c", "=", "/", "p", ",", "o", "p", "t", "i", "o", "n", "a", "l", "=", " ", "t", "r", "u", "e">>
       [] t = "src=/p,optional=false " -> <<"s", "r", "c", "=", "/", "p", ",", "o", "p", "t", "i", "o", "n", "a", "l", "=", "f", "a", "l", "s", "e", " ">>
       [] t = "src=/p,optional=\ttrue" -> <<"s", "r", "c", "=", "/", "p", ",", "o", "p", "t", "i", "o", "n", "a", "l", "=", "\t", "t", "r", "u", "e">>
       [] t = "src=/p,optional=truee" -> <<"s", "r", "c", "=", "/", "p", ",", "o", "p", "t", "i", "o", "n", "a", "l", "=", "t", "r", "u", "e", "e">>
       [] t = "src=/p,optional=tru" -> <<"s", "r", "c", "=", "/", "p", ",", "o", "p", "t", "i", "o", "n", "a", "l", "=", "t", "r", "u">>
       [] t = "src=/p,optional=1" -> <<"s", "r", "c", "=", "/", "p", ",", "o", "p", "t", "i", "o", "n", "a", "l", "=", "1">>
       [] t = "src=/p,optional" -> <<"s", "r", "c", "=", "/", "p", ",", "o", "p", "t", "i", "o", "n", "a", "l">>
       [] t = "src=/p, optional = false" -> <<"s", "r", "c", "=", "/", "p", ",", " ", "o", "p", "t", "i", "o", "n", "a", "l", " ", "=", " ", "f", "a", "l", "s", "e">>
       [] t = "optional=false,src=/p" -> <<"o", "p", "t", "i", "o", "n", "a", "l", "=", "f", "a", "l", "s", "e", ",", "s", "r", "c", "=", "/", "p">>
       [] t = "src=/p,invalid=value" -> <<"s", "r", "c", "=", "/", "p", ",", "i", "n", "v", "a", "l", "i", "d", "=", "v", "a", "l", "u", "e">>
       [] t = "invalid=value,optional=maybe" -> <<"i", "n", "v", "a", "l", "i", "d", "=", "v", "a", "l", "u", "e", ",", "o", "p", "t", "i", "o", "n", "a", "l", "=", "m", "a", "y", "b", "e">>
       [] t = "src=/p,optional=maybe,invalid=value" -> <<"s", "r", "c", "=", "/", "p", ",", "o", "p", "t", "i", "o", "n", "a", "l", "=", "m", "a", "y", "b", "e", ",", "i", "n", "v", "a", "l", "i", "d", "=", "v", "a", "l", "u", "e">>
       [] t = "src=/p,optional=true=false" -> <<"s", "r", "c", "=", "/", "p", ",", "o", "p", "t", "i", "o", "n", "a", "l", "=", "t", "r", "u", "e", "=", "f", "a", "l", "s", "e">>
       [] t = "src=/p,optional=true,optional=maybe" -> <<"s", "r", "c", "=", "/", "p", ",", "o", "p", "t", "i", "o", "n", "a", "l", "=", "t", "r", "u", "e", ",", "o", "p", "t", "i", "o", "n", "a", "l", "=", "m", "a", "y", "b", "e">>
       [] t = "src=/p,optional=maybe,optional=true" -> <<"s", "r", "c", "=", "/", "p", ",", "o", "p", "t", "i", "o", "n", "a", "l", "=", "m", "a", "y", "b", "e", ",", "o", "p", "t", "i", "o", "n", "a", "l", "=", "t", "r", "u", "e">>
       [] t = "" -> <<>>]

RECURSIVE Split(_, _)
\* strings.Split(s, sep) for a one-character sep.
Split(s, sep) ==
  IF \E n \in 1..Len(s) : s[n] = sep
    THEN LET n == CHOOSE n \in 1..Len(s) : s[n] = sep /\ \A m \in 1..(n - 1) : s[m] # sep
         IN <<SubSeq(s, 1, n - 1)>> \o Split(SubSeq(s, n + 1, Len(s)), sep)
  ELSE <<s>>

\* strings.Cut(s, sep) for a one-character sep.
Cut(s, sep) ==
  IF \E n \in 1..Len(s) : s[n] = sep
    THEN LET n == CHOOSE n \in 1..Len(s) : s[n] = sep /\ \A m \in 1..(n - 1) : s[m] # sep
         IN [before |-> SubSeq(s, 1, n - 1), after |-> SubSeq(s, n + 1, Len(s)), found |-> TRUE]
  ELSE [before |-> s, after |-> <<>>, found |-> FALSE]

\* The white space of the model.
WhiteSpace == {" ", "\t"}

RECURSIVE TrimSpace(_)
\* strings.TrimSpace
TrimSpace(s) ==
  IF s # <<>> /\ s[1] \in WhiteSpace THEN TrimSpace(Tail(s))
  ELSE IF s # <<>> /\ s[Len(s)] \in WhiteSpace THEN TrimSpace(SubSeq(s, 1, Len(s) - 1))
  ELSE s

\* The zero secretDir.
ZeroSecretDir == [src |-> <<>>, name |-> <<>>, optional |-> FALSE]

ParseOk(dirs) == [err |-> "nil", value |-> <<>>, secretDirs |-> dirs]

\* The two errors of parseSecretDirs, with the text they quote.
ParseErr(e, value) == [err |-> e, value |-> value, secretDirs |-> <<>>]

\* The optional switch that does not look at the case of the letters.
parseOptional_anyCase(value) ==
  IF value \in {<<"t", "r", "u", "e">>, <<"T", "r", "u", "e">>, <<"T", "R", "U", "E">>}
    THEN [ok |-> TRUE, optional |-> TRUE]
  ELSE IF value = <<"f", "a", "l", "s", "e">> THEN [ok |-> TRUE, optional |-> FALSE]
  ELSE [ok |-> FALSE, optional |-> FALSE]

\* The switch on the value of optional.
parseOptional(value) ==
  IF value = <<"t", "r", "u", "e">> THEN [ok |-> TRUE, optional |-> TRUE]
  ELSE IF value = <<"f", "a", "l", "s", "e">> THEN [ok |-> TRUE, optional |-> FALSE]
  ELSE [ok |-> FALSE, optional |-> FALSE]

RECURSIVE parseKeyValues(_, _, _)
\* The loop over the key=value pairs of one element, from pair i on.
parseKeyValues(keyValues, i, secretDir) ==
  IF i > Len(keyValues) THEN ParseOk(<<secretDir>>)
  ELSE
    LET cut == Cut(keyValues[i], "=")
        key == IF cut.found THEN TrimSpace(cut.before) ELSE <<"s", "r", "c">>
        value == IF cut.found THEN TrimSpace(cut.after) ELSE TrimSpace(cut.before)
    IN
      IF key = <<"s", "r", "c">>
        THEN parseKeyValues(keyValues, i + 1, [secretDir EXCEPT !.src = value])
      ELSE IF key = <<"n", "a", "m", "e">>
        THEN parseKeyValues(keyValues, i + 1, [secretDir EXCEPT !.name = value])
      ELSE IF key = <<"o", "p", "t", "i", "o", "n", "a", "l">> THEN
        IF parseOptional(value).ok
          THEN parseKeyValues(keyValues, i + 1,
                              [secretDir EXCEPT !.optional = parseOptional(value).optional])
        ELSE ParseErr("invalid argument: optional", value)
      ELSE ParseErr("invalid attribute", key)

RECURSIVE parseSecretDirsFrom(_, _, _)
\* The loop over the elements, from element i on.
parseSecretDirsFrom(secretDirArgs, i, parsed) ==
  IF i > Len(secretDirArgs) THEN ParseOk(parsed)
  ELSE
    LET r == parseKeyValues(Split(ArgText[secretDirArgs[i]], ","), 1, ZeroSecretDir) IN
      IF r.err # "nil" THEN r
      ELSE parseSecretDirsFrom(secretDirArgs, i + 1, parsed \o r.secretDirs)

parseSecretDirs(secretDirArgs) == parseSecretDirsFrom(secretDirArgs, 1, <<>>)

InitParseSecretDirs ==
  /\ fs = NoNodes
  /\ cwd = RootPath
  /\ opts = Opts(EmptyPath, EmptyPath, EmptyPath)
  /\ pc = "start"
  /\ result = NoResult
  /\ run = NoRun
  /\ secretDirs = <<>>
  /\ secretsResult = NoSecrets
  /\ \E n \in 0..MaxSecretDirArgs : \E secretDirArgs \in [1..n -> SecretDirArgs] :
       args = [fn |-> "parseSecretDirs", secretDirArgs |-> secretDirArgs]
  /\ ret = ParseOk(<<>>)

\* secretDirs, err := parseSecretDirs(c.Params.SecretDirs)
CallParseSecretDirs ==
  /\ pc = "start"
  /\ ret' = parseSecretDirs(args.secretDirArgs)
  /\ pc' = "parsed"
  /\ UNCHANGED <<fs, cwd, opts, result, run, secretDirs, secretsResult, args>>

NextParseSecretDirs == CallParseSecretDirs

SpecParseSecretDirs == InitParseSecretDirs /\ [][NextParseSecretDirs]_vars

(***************************************************************************)
(* Build-file discovery: what the properties speak about                   *)
(***************************************************************************)

Done == pc = "done"

\* The containment boundary: the symlink-resolved source directory.
Boundary == EvalSymlinks(fs, Abs(opts.SourceDir, cwd))

SourceExists == opts.SourceDir # EmptyPath /\ Boundary.err = "nil"

\* candidate equals boundary, or lies inside it (both canonical).
Contained(candidate, boundary) ==
  /\ candidate.abs = boundary.abs
  /\ Len(candidate.segs) >= Len(boundary.segs)
  /\ SubSeq(candidate.segs, 1, Len(boundary.segs)) = boundary.segs

ContextOrDot == IF opts.ContextDir = EmptyPath THEN DotPath ELSE opts.ContextDir

\* source/context/name and source/name.
AtContext(name) == Join(<<Boundary.path, ContextOrDot, name>>)

AtSource(name) == Join(<<Boundary.path, name>>)

Exists(p) == EvalSymlinks(fs, p).err = "nil"

Absent(p) == EvalSymlinks(fs, p).err = "ENOENT"

Canonical(p) == EvalSymlinks(fs, p).path

ExistsInside(p) == Exists(p) /\ Contained(Canonical(p), Boundary.path)

ExistsOutside(p) == Exists(p) /\ ~Contained(Canonical(p), Boundary.path)

\* The candidate locations in search order.
SearchOrder ==
  IF opts.Dockerfile = EmptyPath
    THEN << AtContext(DefaultDockerfiles[1]), AtSource(DefaultDockerfiles[1]),
            AtContext(DefaultDockerfiles[2]), AtSource(DefaultDockerfiles[2]) >>
  ELSE << AtContext(opts.Dockerfile), AtSource(opts.Dockerfile) >>

\* i is the first candidate in search order that is not simply absent.
FirstPresent(i) ==
  /\ i \in 1..Len(SearchOrder)
  /\ ~Absent(SearchOrder[i])
  /\ \A j \in 1..(i - 1) : Absent(SearchOrder[j])

NotFound(r) == r.err = "nil" /\ r.path = EmptyPath

Located(r) == r.err = "nil" /\ r.path # EmptyPath

\* C1: a path returned without error is canonical and is the resolved
\* source directory or a descendant of it.
ReturnedPathInsideSource ==
  (Done /\ Located(result)) =>
    /\ SourceExists
    /\ Canonical(result.path) = result.path
    /\ Contained(result.path, Boundary.path)

\* C1 witness: a file was returned whose candidate path went through a
\* symlink (the returned path differs from the candidate).
ReturnedThroughSymlink ==
  /\ Done /\ Located(result)
  /\ result.log[Len(result.log)].cand # result.path
  /\ opts.ContextDir # EmptyPath

\* C2: when the candidate the search reaches (the first one in search
\* order that is not absent) exists but resolves outside the boundary, the
\* search fails with the escape error and returns no path.
EscapeIsAnError ==
  (Done /\ SourceExists) =>
    \A i \in 1..Len(SearchOrder) :
      (FirstPresent(i) /\ ExistsOutside(SearchOrder[i])) =>
        (result.err = "escape" /\ result.path = EmptyPath)

\* C2 witness: an escape through a symlinked context directory, with the
\* same file name present in the source directory.
EscapeThroughContextLink ==
  /\ Done /\ SourceExists
  /\ result.err = "escape"
  /\ opts.ContextDir = P(FALSE, <<"ctx">>)
  /\ <<"s", "ctx">> \in DOMAIN fs /\ fs[<<"s", "ctx">>].kind = "link"
  /\ FirstPresent(1) /\ ExistsOutside(SearchOrder[1])
  /\ ExistsInside(SearchOrder[2])

\* C3: every containment check made by the search answers true exactly
\* when the canonical candidate is the boundary or lies inside it.
ContainmentCheckExact ==
  Done =>
    \A i \in 1..Len(result.log) :
      result.log[i].checked =>
        (result.log[i].rel <=> Contained(result.log[i].eval.path, Boundary.path))

\* C4: with no explicit file, a Containerfile that exists inside the source
\* at the context location or at the source location is what the search
\* returns, whatever Dockerfile exists.
ContainerfilePrecedence ==
  (Done /\ SourceExists /\ opts.Dockerfile = EmptyPath) =>
    \A i \in 1..2 :
      (FirstPresent(i) /\ ExistsInside(SearchOrder[i])) =>
        (Located(result) /\ result.path = Canonical(SearchOrder[i]))

\* C5: when the searched name exists inside the source at both locations
\* the context one is returned and nothing else is evaluated; the source
\* location is evaluated only after the context location was absent.
ContextPrecedence ==
  (Done /\ SourceExists) =>
    /\ (ExistsInside(SearchOrder[1]) /\ ExistsInside(SearchOrder[2])) =>
         /\ Located(result) /\ result.path = Canonical(SearchOrder[1])
         /\ Len(result.log) = 1
    /\ \A i \in 1..Len(result.log) :
         result.log[i].pos = 2 =>
           /\ result.log[i].cand = AtSource(result.log[i].dockerfile)
           /\ Absent(AtContext(result.log[i].dockerfile))

\* C6: with an existing source directory the search reports not-found
\* (empty path, no error) exactly when every candidate is absent.
NotFoundIffAllAbsent ==
  (Done /\ SourceExists) =>
    (NotFound(result) <=> \A i \in 1..Len(SearchOrder) : Absent(SearchOrder[i]))

\* C6 witness: auto-detection tried both names at both locations of a
\* context directory and found none.
NothingToFind ==
  /\ Done /\ SourceExists /\ NotFound(result)
  /\ opts.Dockerfile = EmptyPath /\ opts.ContextDir = P(FALSE, <<"ctx">>)
  /\ Len(result.log) = 4
  /\ <<"s", "ctx">> \in DOMAIN fs /\ fs[<<"s", "ctx">>].kind = "dir"

(***************************************************************************)
(* The push commands: what the properties speak about                      *)
(***************************************************************************)

Returned == pc = "returned"

\* C7: a push command whose search reported not-found returns success
\* having selected no credentials, pushed nothing and written no result;
\* and as long as no file has been located no credentials are selected,
\* no push is made and no result is written.
NotFoundIsNoOp ==
  /\ (Returned /\ NotFound(result)) =>
       /\ run.ret = "nil"
       /\ ~run.auth /\ run.config = "none" /\ run.pushes = 0 /\ ~run.written
  /\ ~Located(result) =>
       (~run.auth /\ run.config = "none" /\ run.pushes = 0 /\ ~run.written)

\* C7 witness: a push-dockerfile run returned after a search for an
\* explicit file that found nothing.
PushAborted ==
  /\ Returned /\ NotFound(result)
  /\ run.cmd = "push-dockerfile"
  /\ opts.Dockerfile # EmptyPath
  /\ run.ret = "nil"

(***************************************************************************)
(* Secret directories: what the properties speak about                     *)
(***************************************************************************)

SecretsDone == pc = "done" /\ secretsResult.err # "none"

SpecIndexes == 1..Len(secretDirs)

Listing(i) == ReadDir(fs, cwd, secretDirs[i].src)

\* The directory of spec i is missing and the spec is optional.
Skippable(i) == Listing(i).err = "ENOENT" /\ secretDirs[i].optional

FileName(e) == P(FALSE, <<e.name>>)

\* What entry e of spec i is once symlinks are followed.
TargetKind(i, e) ==
  IF e.type # "link" THEN e.type
  ELSE LET stat == Stat(fs, cwd, Join(<<secretDirs[i].src, FileName(e)>>)) IN
    IF stat.err # "nil" THEN "broken" ELSE stat.kind

IdPrefix(i) ==
  IF secretDirs[i].name = EmptyPath THEN Base(secretDirs[i].src) ELSE secretDirs[i].name

IdOf(i, e) == Join(<<IdPrefix(i), FileName(e)>>)

\* The entries of spec i that are files or symlinks to files.
Accepted(i) ==
  SelectSeq(Listing(i).entries, LAMBDA e : TargetKind(i, e) = "file")

RECURSIVE IdsFrom(_)
\* The ids of the accepted entries of specs i.. in processing order.
IdsFrom(i) ==
  IF i > Len(secretDirs) THEN <<>>
  ELSE [k \in 1..Len(Accepted(i)) |-> IdOf(i, Accepted(i)[k])] \o IdsFrom(i + 1)

AllIds == IdsFrom(1)

Collides(k) == \E j \in 1..(k - 1) : AllIds[j] = AllIds[k]

\* No directory fails to list except missing optional ones, and no
\* symlink leads nowhere.
NoReadFailure ==
  \A i \in SpecIndexes :
    /\ Listing(i).err # "nil" => Skippable(i)
    /\ \A k \in 1..Len(Listing(i).entries) : TargetKind(i, Listing(i).entries[k]) # "broken"

\* The mappings of the result that entry e of spec i accounts for.
MappingsOf(i, e) ==
  {k \in 1..Len(secretsResult.secrets) :
     /\ secretsResult.secrets[k].Src = Join(<<secretDirs[i].src, FileName(e)>>)
     /\ secretsResult.secrets[k].Id = IdOf(i, e)}

\* C8: a successful resolution has pairwise distinct ids; when an accepted
\* entry repeats the id of an earlier accepted entry, of the same or of an
\* earlier spec, the resolution fails with the duplicate-id error naming
\* the first repeated id, and a duplicate-id error comes with no mappings.
SecretIdsUnique ==
  SecretsDone =>
    /\ secretsResult.err = "nil" =>
         \A a, b \in 1..Len(secretsResult.secrets) :
           a # b => secretsResult.secrets[a].Id # secretsResult.secrets[b].Id
    /\ NoReadFailure =>
         \A k \in 1..Len(AllIds) :
           (Collides(k) /\ \A j \in 1..(k - 1) : ~Collides(j)) =>
             /\ secretsResult.err = "duplicate"
             /\ secretsResult.id = AllIds[k]
             /\ secretsResult.secrets = <<>>
    /\ secretsResult.err = "duplicate" =>
         /\ secretsResult.secrets = <<>>
         /\ \E k \in 1..Len(AllIds) : Collides(k) /\ AllIds[k] = secretsResult.id

\* C8 witness: two different directories with the same base name and no
\* alias, each holding a file of the same name.
DuplicateFromSharedBasename ==
  /\ SecretsDone
  /\ secretsResult.err = "duplicate"
  /\ Len(secretDirs) = 2
  /\ secretDirs[1].src = P(TRUE, <<"a", "secret1">>)
  /\ secretDirs[2].src = P(TRUE, <<"b", "secret1">>)
  /\ secretDirs[1].name = EmptyPath /\ secretDirs[2].name = EmptyPath
  /\ secretsResult.id = P(FALSE, <<"secret1", "token">>)

\* C9: a directory that cannot be listed is passed over, and the other
\* specs are still resolved, exactly when it is missing and its spec is
\* optional; any other listing failure ends the resolution with an error
\* and no mappings.
SkipOnlyMissingOptional ==
  SecretsDone =>
    /\ (\E i \in SpecIndexes : Listing(i).err # "nil" /\ ~Skippable(i)) =>
         (secretsResult.err # "nil" /\ secretsResult.secrets = <<>>)
    /\ \A i \in SpecIndexes :
         ( /\ Listing(i).err # "nil" /\ ~Skippable(i)
           /\ \A j \in 1..(i - 1) : Listing(j).err = "nil" => Listing(j).entries = <<>> ) =>
         secretsResult.err = "read"
    /\ (\A i \in SpecIndexes : Listing(i).err # "nil" => Skippable(i)) =>
         /\ secretsResult.err # "read"
         /\ secretsResult.err = "nil" => Len(secretsResult.secrets) = Len(AllIds)

\* C9 witness: a missing optional directory was passed over and the spec
\* after it was resolved.
MissingOptionalSkipped ==
  /\ SecretsDone
  /\ Len(secretDirs) = 2
  /\ Skippable(1)
  /\ secretsResult.err = "nil"
  /\ Len(secretsResult.secrets) > 0

\* C10: in a successful resolution every entry that is a regular file or a
\* symlink to one accounts for exactly one mapping and every entry that is
\* a directory or a symlink to one for none; directories and symlinks to
\* directories never make the resolution fail.
OnlyFilesBecomeSecrets ==
  SecretsDone =>
    /\ secretsResult.err = "nil" =>
         \A i \in SpecIndexes :
           \A k \in 1..Len(Listing(i).entries) :
             LET e == Listing(i).entries[k] IN
               Cardinality(MappingsOf(i, e)) = IF TargetKind(i, e) = "file" THEN 1 ELSE 0
    /\ (NoReadFailure /\ \A k \in 1..Len(AllIds) : ~Collides(k)) =>
         secretsResult.err = "nil"

\* C10 witness: a directory laid out as a Kubernetes secret volume gave one
\* mapping, for the symlink to the file, and none for the directory
\* ..data or the symlink to it.
SecretVolumeResolved ==
  /\ SecretsDone
  /\ secretsResult.err = "nil"
  /\ Len(secretDirs) = 1
  /\ <<"a", "secret1", "data">> \in DOMAIN fs
  /\ Len(Listing(1).entries) = 3
  /\ Len(secretsResult.secrets) = 1
  /\ secretsResult.secrets[1].Id = P(FALSE, <<"secret1", "token">>)

(***************************************************************************)
(* Secret directories: the paths and the order of the mappings             *)
(***************************************************************************)

Built == pc = "built"

\* src of spec i as given, and made absolute.
GivenSrc(i) == secretDirs[i].src

AbsoluteSrc(i) == Abs(secretDirs[i].src, cwd)

RECURSIVE SrcsFrom(_, _)
\* For the accepted entries of specs i.. in processing order, the file
\* name of the entry joined to the src of its spec, as given or absolute.
SrcsFrom(i, absolute) ==
  IF i > Len(secretDirs) THEN <<>>
  ELSE [k \in 1..Len(Accepted(i)) |->
          Join(<<IF absolute THEN AbsoluteSrc(i) ELSE GivenSrc(i),
                 FileName(Accepted(i)[k])>>)]
         \o SrcsFrom(i + 1, absolute)

RECURSIVE GivenAbsoluteFrom(_)
\* For the accepted entries of specs i.. in processing order, whether the
\* src of the spec was given as an absolute path.
GivenAbsoluteFrom(i) ==
  IF i > Len(secretDirs) THEN <<>>
  ELSE [k \in 1..Len(Accepted(i)) |-> secretDirs[i].src.abs] \o GivenAbsoluteFrom(i + 1)

SrcsAre(expected) ==
  /\ Len(secretsResult.secrets) = Len(expected)
  /\ \A k \in 1..Len(expected) : secretsResult.secrets[k].Src = expected[k]

\* C11 as stated: every mapping processSecretDirs returns has an absolute
\* src equal to absolute(spec src)/filename, also for a relative spec src.
ReturnedSrcAbsolute ==
  (SecretsDone /\ secretsResult.err = "nil") =>
    /\ SrcsAre(SrcsFrom(1, TRUE))
    /\ \A k \in 1..Len(secretsResult.secrets) : secretsResult.secrets[k].Src.abs

\* C11 amended: every mapping processSecretDirs returns has as src the
\* spec's src joined with the file name, absolute exactly when the spec's
\* src was given absolute; once buildImage has made the build arguments
\* absolute every src is absolute and equal to absolute(spec src)/filename.
SrcAbsoluteOnceBuilt ==
  /\ (SecretsDone /\ secretsResult.err = "nil") =>
       /\ SrcsAre(SrcsFrom(1, FALSE))
       /\ \A k \in 1..Len(secretsResult.secrets) :
            secretsResult.secrets[k].Src.abs <=> GivenAbsoluteFrom(1)[k]
  /\ Built =>
       /\ SrcsAre(SrcsFrom(1, TRUE))
       /\ \A k \in 1..Len(secretsResult.secrets) : secretsResult.secrets[k].Src.abs

\* C11 witness: a build started in /a with a relative secret directory
\* whose file reached the build arguments.
RelativeSecretDirBuilt ==
  /\ Built
  /\ cwd = P(TRUE, <<"a">>)
  /\ Len(secretDirs) = 1
  /\ secretDirs[1].src = P(FALSE, <<"secret1">>)
  /\ Len(secretsResult.secrets) > 0

RECURSIVE MappingsFrom(_)
\* The mappings of the accepted entries of specs i.., spec after spec and
\* within a spec in the order of the directory listing.
MappingsFrom(i) ==
  IF i > Len(secretDirs) THEN <<>>
  ELSE [k \in 1..Len(Accepted(i)) |->
          [Src |-> Join(<<secretDirs[i].src, FileName(Accepted(i)[k])>>),
           Id |-> IdOf(i, Accepted(i)[k])]]
         \o MappingsFrom(i + 1)

\* C12: the mappings of a successful resolution are the accepted entries
\* of the first spec in listing order, then those of the second spec, and
\* so on in the order the specs were given.
MappingsInSpecOrder ==
  (SecretsDone /\ secretsResult.err = "nil") =>
    secretsResult.secrets = MappingsFrom(1)

\* C12 witness: two specs resolved, the first to two mappings and the
\* second to one.
TwoSpecsConcatenated ==
  /\ SecretsDone
  /\ secretsResult.err = "nil"
  /\ Len(secretDirs) = 2
  /\ Len(Accepted(1)) = 2
  /\ Len(Accepted(2)) = 1
  /\ Len(secretsResult.secrets) = 3

(***************************************************************************)
(* Registry authentication: what the properties speak about                *)
(***************************************************************************)

AuthDone == pc = "done" /\ args.fn = "SelectRegistryAuth"

\* The auth file was loaded and the reference gave a repository path.
LookedUp == AuthDone /\ args.authFile.readable /\ ret.imageRepo # <<>>

Auths == args.authFile.auths

\* The repository path and what is left of it when one or more trailing
\* "/"-segments are removed.
Prefixes(repo) ==
  {repo} \cup {SubSeq(repo, 1, i - 1) : i \in {k \in 1..Len(repo) : repo[k] = "/"}}

\* The scope keys of the auth file the prefix walk can match.
Matching == Prefixes(ret.imageRepo) \cap DOMAIN Auths

LongestMatching == CHOOSE k \in Matching : \A j \in Matching : Len(j) <= Len(k)

\* The registry component of the repository path.
RegistryOf(repo) == CHOOSE k \in Prefixes(repo) : \A j \in Prefixes(repo) : Len(k) <= Len(j)

\* Nothing matched on the prefix walk and the fallback applies.
FallbackMatch ==
  /\ Matching = {}
  /\ RegistryOf(ret.imageRepo) = registryDockerIO
  /\ registryIndexDockerIO \in DOMAIN Auths

\* The scope key the lookup settles on, if any.
Matched == Matching # {} \/ FallbackMatch

MatchedScope == IF Matching # {} THEN LongestMatching ELSE registryIndexDockerIO

Succeeded(token) == ret.err = "nil" /\ ret.Token = token

\* C13: when scope keys of the auth file equal the repository path or a
\* prefix of it at a "/", the lookup settles on the longest of them: it
\* returns that scope's auth string, and no shorter scope's.
LongestScopeWins ==
  (LookedUp /\ Matching # {}) =>
    /\ Auths[LongestMatching].Auth # "" => Succeeded(Auths[LongestMatching].Auth)
    /\ ret.err = "nil" => ret.Token = Auths[LongestMatching].Auth

\* C13 witness: reg.io/foo/bar/baz with the scopes reg.io and
\* reg.io/foo/bar got the auth string of reg.io/foo/bar.
DeeperScopePreferred ==
  /\ LookedUp
  /\ args.repo = RegIO \o Foo \o Bar \o Baz
  /\ {RegIO, RegIO \o Foo \o Bar} \subseteq Matching
  /\ Auths[RegIO].Auth # ""
  /\ Succeeded("reg.io-foo-bar token")

\* C14: the auth string of the index scope is returned exactly when the
\* prefix walk matched nothing and the registry component is docker.io.
IndexScopeIsLastResort ==
  (LookedUp /\ registryIndexDockerIO \in DOMAIN Auths
     /\ Auths[registryIndexDockerIO].Auth # "") =>
    (Succeeded(Auths[registryIndexDockerIO].Auth)
       <=> (Matching = {} /\ RegistryOf(ret.imageRepo) = registryDockerIO))

\* C14 witness: docker.io/foo with an auth file that holds the index scope
\* and no docker.io scope.
DockerIOFallsBack ==
  /\ LookedUp
  /\ args.repo = registryDockerIO \o Foo
  /\ Matching = {}
  /\ Succeeded("index.docker.io token")

\* C15 as stated: the lookup fails with the not-configured error naming
\* the repository exactly when no scope key matched, and succeeds with the
\* matched scope's auth string whenever one matched.
NotConfiguredIffNoMatch ==
  LookedUp =>
    /\ (ret.err = "not_configured" /\ ret.named = ret.imageRepo) <=> ~Matched
    /\ Matched => Succeeded(Auths[MatchedScope].Auth)

\* C15 amended: the lookup fails with the not-configured error naming the
\* repository exactly when no scope key matched or the auth string of the
\* matched scope is empty; whenever the matched scope has a non-empty auth
\* string it succeeds and returns that string.
NotConfiguredIffNoToken ==
  LookedUp =>
    /\ (ret.err = "not_configured" /\ ret.named = ret.imageRepo)
         <=> (~Matched \/ Auths[MatchedScope].Auth = "")
    /\ (Matched /\ Auths[MatchedScope].Auth # "") => Succeeded(Auths[MatchedScope].Auth)

\* C15 witness: a registry no scope of a non-empty auth file matches.
UnknownRegistryRejected ==
  /\ LookedUp
  /\ args.repo = NewRegIO \o Foo
  /\ DOMAIN Auths = ScopeKeys
  /\ ret.err = "not_configured"
  /\ ret.named = NewRegIO \o Foo

\* C16: the repository path the lookup works with is the repo the image
\* reference was formed from, in each of the forms repo, repo:tag,
\* repo@sha256:digest and repo:tag@sha256:digest.
LookupRepoIsRepo ==
  AuthDone => ret.imageRepo = args.repo

(***************************************************************************)
(* ExtractCredentials: what the properties speak about                     *)
(***************************************************************************)

CredDone == pc = "done" /\ args.fn = "ExtractCredentials"

\* The token without its line breaks.
TokenText == SelectSeq(args.authCred, LAMBDA c : c \notin {"\n", "\r"})

HasColon(c) == \E i \in 1..Len(c) : c[i] = Colon

\* u and p are what stands before and after the first ":" of c.
CutAtFirstColon(c, u, p) ==
  /\ c = u \o <<Colon>> \o p
  /\ ~HasColon(u)

\* C17: a token that decodes to a credential with a ":" gives the part
\* before the first ":" as username and all that follows it as password;
\* a token that does not decode, or decodes to a credential without ":",
\* gives an error.
SplitAtFirstColon ==
  CredDone =>
    /\ \A c \in Credentials :
         TokenText = EncodeToString(c) =>
           IF HasColon(c)
             THEN ret.err = "nil" /\ CutAtFirstColon(c, ret.username, ret.password)
           ELSE ret.err = "format"
    /\ args.authCred \in MalformedTokens => ret.err = "decode"

\* C17 witness: a credential with an empty username and a ":" in the
\* password.
ColonInPassword ==
  /\ CredDone
  /\ ret.err = "nil"
  /\ ret.username = <<>>
  /\ HasColon(ret.password)
  /\ Len(ret.password) = 3

(***************************************************************************)
(* The transformer: what the properties speak about                        *)
(***************************************************************************)

Checked == pc \in {"checked", "summary", "ssl", "summary_ssl"}

SummaryInjected == pc = "summary"

SSLInjected == pc \in {"ssl", "summary_ssl"}

\* The arrays and objects a value refers to directly.
RefsOf(h, a) ==
  {h[a].items[i].a : i \in {n \in 1..Len(h[a].items) : h[a].items[n].k = "ref"}}
    \cup {h[a].fields[key].a : key \in {n \in Keys : h[a].fields[n].k = "ref"}}

RECURSIVE ReachFrom(_, _, _)
ReachFrom(h, frontier, seen) ==
  IF frontier \subseteq seen THEN seen
  ELSE ReachFrom(h, UNION {RefsOf(h, a) : a \in frontier}, seen \cup frontier)

\* The arrays and objects that make up value v.
Structure(h, v) == IF v.k = "ref" THEN ReachFrom(h, {v.a}, {}) ELSE {}

InputStructure == Structure(args.heap, args.input)

RECURSIVE LeavesOn(_, _)
\* The objects the traversal stops at: reached through arrays and
\* packages arrays, and without a packages array of their own.
LeavesOn(h, v) ==
  IF IsArray(h, v)
    THEN UNION {LeavesOn(h, h[v.a].items[i]) : i \in 1..Len(h[v.a].items)}
  ELSE IF IsMap(h, v) THEN
    LET packages == h[v.a].fields["packages"] IN
      IF IsArray(h, packages)
        THEN UNION {LeavesOn(h, h[packages.a].items[i]) : i \in 1..Len(h[packages.a].items)}
      ELSE {v.a}
  ELSE {}

\* The leaf rpm nodes of the input.
LeafRPMs == {a \in LeavesOn(args.heap, args.input) : args.heap[a].fields["type"] = Str("rpm")}

\* The ssl map a leaf holds under options, before the call.
HasSSLMap(a) ==
  /\ IsMap(args.heap, args.heap[a].fields["options"])
  /\ IsMap(args.heap, args.heap[args.heap[a].fields["options"].a].fields["ssl"])

SSLMapOf(a) == args.heap[args.heap[a].fields["options"].a].fields["ssl"].a

NewSSL == args.heap[args.ssl.a].fields

Flagged(a) == ret.heap[a].fields["include_summary_in_sbom"] = True

\* C18: containsRPM answers true exactly when injectSummaryInSBOMField
\* sets include_summary_in_sbom on at least one node of the same input.
ContainsIffInjected ==
  SummaryInjected => (ret.contains <=> \E a \in InputStructure : Flagged(a))

\* C19: a leaf rpm node that has an options.ssl map keeps that map, and
\* after the injection the map gives the new value for every key of the
\* new SSL block and the old value for every other key.
ExistingSSLMerged ==
  SSLInjected =>
    \A a \in LeafRPMs :
      HasSSLMap(a) =>
        /\ ret.heap[a].fields["options"] = args.heap[a].fields["options"]
        /\ ret.heap[args.heap[a].fields["options"].a].fields["ssl"] = Ref(SSLMapOf(a))
        /\ \A key \in Keys :
             /\ NewSSL[key] # NoValue => ret.heap[SSLMapOf(a)].fields[key] = NewSSL[key]
             /\ NewSSL[key] = NoValue =>
                  ret.heap[SSLMapOf(a)].fields[key] = args.heap[SSLMapOf(a)].fields[key]

\* C19 witness: a leaf with the ssl keys client_key and verify was given
\* the block with client_cert alone and holds all three.
OldKeysKept ==
  /\ SSLInjected
  /\ \E a \in LeafRPMs :
       /\ HasSSLMap(a)
       /\ NewSSL["client_key"] = NoValue
       /\ ret.heap[SSLMapOf(a)].fields["client_key"] = Str("my_client_key")
       /\ ret.heap[SSLMapOf(a)].fields["verify"] = Str("no")
       /\ ret.heap[SSLMapOf(a)].fields["client_cert"] = Str("client_cert")

MalformedInputs ==
  {"rpm",
   "yarn",
   "",
   " ",
   "{",
   "[",
   "]",
   "{\"type\": \"rpm\"",
   "{\"type\": \"rpm\"}}",
   "\"rpm",
   "rpm\"",
   "{type: rpm}",
   "[rpm]",
   "{\"type\" \"rpm\"}",
   "{\"type\": \"rpm\",}",
   "[,]",
   "[\"rpm\",]",
   "tru",
   "nul",
   "rpm yarn",
   "{\"type\": \"rpm\"} x",
   "01",
   "-",
   "[] []",
   "{\"type\"}",
   "{1: \"rpm\"}",
   "True",
   "[1 1]"}

Parsed == pc # "raw"

\* The object {"type": s}, at address a of heap h.
IsTypeOnly(h, a, s) == h[a] = MapObj([NoFields EXCEPT !["type"] = Str(s)])

\* C21: parseInput returns a value for every raw input; for an input
\* that is not a JSON text the value is a new object whose one field is
\* type, the raw input, and for other inputs it is not such an object; the
\* raw input rpm is detected by containsRPM and flagged by the injection.
MalformedInputWrapped ==
  /\ Parsed =>
       /\ ret.value # NoValue
       /\ args.raw \in MalformedInputs <=>
            /\ IsMap(args.heap, args.input)
            /\ args.input.a = Len(args.heap)
            /\ IsTypeOnly(args.heap, args.input.a, args.raw)
  /\ (args.raw = "rpm" /\ Checked) => ret.contains
  /\ (args.raw = "rpm" /\ SummaryInjected) => Flagged(args.input.a)

\* C21 witness: the plain string rpm was wrapped, detected and flagged.
PlainRPMFlagged ==
  /\ args.raw = "rpm"
  /\ SummaryInjected
  /\ ret.contains
  /\ ret.heap[ret.value.a].fields["type"] = Str("rpm")
  /\ Flagged(ret.value.a)

\* C22: injectSummaryInSBOMField applied to its own output changes
\* nothing and returns the same value, and containsRPM, when it was true
\* of the input, is true of the injected value.
SummaryIdempotent ==
  [][/\ CallInjectSummaryAgain => (ret'.value = ret.value /\ ret'.heap = ret.heap)
     /\ CallContainsRPMAgain => (ret.contains => ret'.contains)]_vars

\* C22 witness: a package list with an rpm leaf was injected twice, is
\* flagged, and is still detected.
InjectedTwiceDetected ==
  /\ pc = "rechecked_twice"
  /\ ret.contains
  /\ IsMap(args.heap, args.input)
  /\ IsArray(args.heap, args.heap[args.input.a].fields["packages"])
  /\ \E a \in LeafRPMs : Flagged(a)

(***************************************************************************)
(* parseSecretDirs: what the properties speak about                        *)
(***************************************************************************)

SecretDirsParsed == args.fn = "parseSecretDirs" /\ pc = "parsed"

TrueOrFalse == {<<"t", "r", "u", "e">>, <<"f", "a", "l", "s", "e">>}

OptionalKey == <<"o", "p", "t", "i", "o", "n", "a", "l">>

KnownKeys == {<<"s", "r", "c">>, <<"n", "a", "m", "e">>, OptionalKey}

RECURSIVE PairsFrom(_, _)
\* The key=value pairs of the elements i.. as written, in order.
PairsFrom(secretDirArgs, i) ==
  IF i > Len(secretDirArgs) THEN <<>>
  ELSE
    LET keyValues == Split(ArgText[secretDirArgs[i]], ",") IN
      [n \in 1..Len(keyValues) |-> Cut(keyValues[n], "=")] \o PairsFrom(secretDirArgs, i + 1)

WrittenPairs == PairsFrom(args.secretDirArgs, 1)

\* A pair of the key optional whose value, white space at its ends
\* apart, is neither true nor false.
BadOptional(pair) ==
  pair.found /\ TrimSpace(pair.before) = OptionalKey /\ TrimSpace(pair.after) \notin TrueOrFalse

\* A pair with a key that is not src, name or optional.
BadKey(pair) == pair.found /\ TrimSpace(pair.before) \notin KnownKeys

\* C23 as stated: when a pair optional=<value> is written with a value
\* other than exactly true or exactly false, parsing fails with the
\* invalid-optional-value error.
OptionalValueExact ==
  SecretDirsParsed =>
    \A n \in 1..Len(WrittenPairs) :
      (/\ WrittenPairs[n].found
       /\ WrittenPairs[n].before = OptionalKey
       /\ WrittenPairs[n].after \notin TrueOrFalse)
        => ret.err = "invalid argument: optional"

\* C23 amended: parsing fails with the invalid-optional-value error
\* exactly when the first pair in error is an optional pair whose value,
\* white space at its ends apart, is neither true nor false; the error
\* quotes that value; no pair in error means no error.
OptionalValueTrimmed ==
  SecretDirsParsed =>
    /\ ret.err = "invalid argument: optional" <=>
         \E n \in 1..Len(WrittenPairs) :
           /\ BadOptional(WrittenPairs[n])
           /\ ret.value = TrimSpace(WrittenPairs[n].after)
           /\ \A m \in 1..(n - 1) : ~BadOptional(WrittenPairs[m]) /\ ~BadKey(WrittenPairs[m])
    /\ ret.err = "nil" <=>
         \A n \in 1..Len(WrittenPairs) : ~BadOptional(WrittenPairs[n]) /\ ~BadKey(WrittenPairs[n])

\* C23 witness: optional=True was rejected with its value quoted.
CapitalisedTrueRejected ==
  /\ SecretDirsParsed
  /\ ret.err = "invalid argument: optional"
  /\ ret.value = <<"T", "r", "u", "e">>

(***************************************************************************)
(* Build.Run: what the properties speak about                              *)
(***************************************************************************)

InBuildRun == args.fn = "Build.Run"

PushCalls == {n \in 1..Len(ret.calls) : ret.calls[n].fn = "Push"}

BuildSucceededBefore(n) ==
  \E m \in 1..(n - 1) : ret.calls[m] = Called("Build", TRUE)

\* C24: in Build.Run every call of the push comes with Params.Push set and
\* after a build that returned success; without Params.Push, or without
\* a build that succeeded, there is no push and Results.Digest is empty.
PushOnlyAfterBuild ==
  InBuildRun =>
    /\ \A n \in PushCalls : args.Params.Push /\ BuildSucceededBefore(n)
    /\ (~args.Params.Push \/ ~BuildSucceededBefore(Len(ret.calls) + 1)) =>
         (PushCalls = {} /\ ret.Digest = "")

\* C24 witness: Run returned after a build and a push that succeeded,
\* with the digest of the push in its results.
BuiltAndPushed ==
  /\ InBuildRun
  /\ pc = "returned"
  /\ ret.err = "nil"
  /\ SelectSeq(ret.calls, LAMBDA c : c.fn # "CreateResultJson")
       = <<Called("Build", TRUE), Called("Push", TRUE)>>
  /\ ret.Digest \in PushDigests

(***************************************************************************)
(* The second pass of the search: what the property speaks about           *)
(***************************************************************************)

\* The candidates evaluated for the name searched in pass n, in order.
PassOf(n) == SelectSeq(result.log, LAMBDA e : e.dockerfile = DefaultDockerfiles[n])

\* The directory a candidate lies in, as an absolute path.
LocationOf(cand) == DirOf(Abs(cand, cwd))

\* The source directory resolved, as an absolute path.
ResolvedSource == EvalSymlinks(fs, Abs(opts.SourceDir, cwd)).path

\* No Containerfile at either location: both candidates of the first pass
\* were evaluated and are absent.
NoContainerfile ==
  /\ Len(PassOf(1)) = 2
  /\ \A k \in 1..2 : PassOf(1)[k].eval.err = "ENOENT"

\* C25: with no explicit file and no Containerfile at either location,
\* the candidates of the second pass lie at source/context and then at
\* source, where those of the first pass lay, and a Dockerfile that is
\* present at source/context is returned.
SecondPassSameLocations ==
  (pc = "done" /\ opts.Dockerfile = EmptyPath /\ NoContainerfile) =>
    /\ Len(PassOf(2)) >= 1
    /\ \A k \in 1..Len(PassOf(2)) :
         /\ LocationOf(PassOf(2)[k].cand) = LocationOf(PassOf(1)[k].cand)
         /\ LocationOf(PassOf(2)[k].cand) =
              IF k = 1 THEN Join(<<ResolvedSource, ContextOrDot>>) ELSE ResolvedSource
    /\ LET inContext == Join(<<ResolvedSource, ContextOrDot, P(FALSE, <<"Dockerfile">>)>>) IN
         (/\ inContext.segs \in DOMAIN fs
          /\ fs[inContext.segs].kind = "file"
          /\ EvalSymlinks(fs, inContext) = EvalOk(inContext.segs)
          /\ isRelativeTo(inContext, ResolvedSource))
           => Abs(result.path, cwd) = inContext

(***************************************************************************)
(* The frame of the injections                                             *)
(***************************************************************************)

\* The arrays and objects below the options of the leaf rpm nodes.
UnderOptions ==
  UNION {Structure(args.heap, args.heap[l].fields["options"]) : l \in LeafRPMs}

\* The fields of a leaf match the injections made so far may change.
InjectedFields ==
  (IF pc \in {"summary", "summary_ssl"} THEN {"include_summary_in_sbom"} ELSE {})
    \cup (IF pc \in {"ssl", "summary_ssl"} THEN {"options"} ELSE {})

\* C26: after an injection every array and object of the input that is
\* not a leaf match, nor part of the options of one, is as it was: objects
\* of another type, objects with a packages array, and the arrays with the
\* scalars they hold; a scalar input is returned as it is; and a leaf match
\* differs at most in include_summary_in_sbom (summary injection) and
\* options (SSL injection).
OnlyLeafMatchesChanged ==
  (SummaryInjected \/ SSLInjected) =>
    /\ ret.value = args.input
    /\ \A a \in InputStructure \ (LeafRPMs \cup UnderOptions) : ret.heap[a] = args.heap[a]
    /\ \A l \in LeafRPMs :
         /\ ret.heap[l].t = args.heap[l].t
         /\ \A key \in Keys \ InjectedFields :
              ret.heap[l].fields[key] = args.heap[l].fields[key]

\* C26 witness: of a typed package list with an rpm and a yarn package
\* only the rpm package was changed by the two injections.
OnlyRPMPackageChanged ==
  /\ pc = "summary_ssl"
  /\ IsMap(args.heap, args.input)
  /\ args.heap[args.input.a].fields["type"] = Str("yarn")
  /\ Cardinality(LeafRPMs) = 1
  /\ \E y \in InputStructure \ LeafRPMs : args.heap[y].fields["type"] = Str("yarn") /\ y # args.input.a
  /\ \A a \in InputStructure : (ret.heap[a] # args.heap[a]) <=> a \in LeafRPMs

\* An options map without an ssl map, held by leaf a before the call.
HasOptionsWithoutSSL(a) ==
  /\ IsMap(args.heap, args.heap[a].fields["options"])
  /\ ~IsMap(args.heap, args.heap[args.heap[a].fields["options"].a].fields["ssl"])

\* C27: a leaf rpm node that has an options map without an ssl map has,
\* after the SSL injection, an options map with every other entry as it
\* was and with the ssl entry added.
OtherOptionsKept ==
  SSLInjected =>
    \A a \in LeafRPMs :
      HasOptionsWithoutSSL(a) =>
        /\ IsMap(ret.heap, ret.heap[a].fields["options"])
        /\ ret.heap[ret.heap[a].fields["options"].a].fields["ssl"] = args.ssl
        /\ \A key \in Keys \ {"ssl"} :
             ret.heap[ret.heap[a].fields["options"].a].fields[key]
               = args.heap[args.heap[a].fields["options"].a].fields[key]

(***************************************************************************)
(* The ids of the mappings                                                 *)
(***************************************************************************)

\* idPrefix + "/" + filename as a path string: the components of the
\* prefix as written, then the file name.
PrefixSlashName(idPrefix, filename) == P(idPrefix.abs, Append(idPrefix.segs, filename))

\* The name of a spec if set, otherwise the base name of its src.
PrefixOf(secretDir) ==
  IF secretDir.name # EmptyPath THEN secretDir.name ELSE Base(secretDir.src)

\* C28: every mapping returned comes from a spec and a file name such that
\* its src is the file in the directory of the spec and its id is the
\* prefix of the spec, "/", and the file name.
IdIsPrefixSlashName ==
  (pc = "done" /\ secretsResult.err = "nil") =>
    \A k \in 1..Len(secretsResult.secrets) :
      \E i \in 1..Len(secretDirs), n \in 1..Len(FileNameOrder) :
        /\ secretsResult.secrets[k].Src =
             Join(<<secretDirs[i].src, P(FALSE, <<FileNameOrder[n]>>)>>)
        /\ secretsResult.secrets[k].Id =
             PrefixSlashName(PrefixOf(secretDirs[i]), FileNameOrder[n])

(***************************************************************************)
(* The registry config file of PushContainerfile.Run                       *)
(***************************************************************************)

\* C30: when PushContainerfile.Run has returned, the registry config file
\* it created, if any, has been removed.
RegistryConfigRemovedOnReturn ==
  (pc = "returned" /\ run.cmd = "push-containerfile") => run.config # "exists"

(***************************************************************************)
(* PrefetchDependencies.Run: what the property speaks about                *)
(***************************************************************************)

\* C29: in a run of PrefetchDependencies.Run every execution of
\* subscription-manager unregister comes after an execution of
\* subscription-manager register in the same run.
UnregisterOnlyAfterRegister ==
  args.fn = "PrefetchDependencies.Run" =>
    \A n \in 1..Len(ret.calls) :
      ret.calls[n] = "unregister" => \E m \in 1..(n - 1) : ret.calls[m] = "register"

====
